---- MODULE Spec2Model ----
(***************************************************************************)
(* A model of the cluster client of aws-dax-go-v2:                         *)
(*   - cluster membership (refresh / update / onHealthCheckFailed / Close) *)
(*     of dax/internal/client/cluster.go,                                  *)
(*   - the request retry loop ClusterDaxClient.retry of the same file,     *)
(*   - concurrent cluster.refresh calls, the health status of a node       *)
(*     client and the fail-open of the route manager, and                  *)
(*   - the tube pool of a node client and the single-flight LRU cache.     *)
(* Each part has a specification of its own; the variables of the other    *)
(* parts stay as they are in it.                                           *)
(*                                                                         *)
(* Node clients are numbered in the order the client builder makes them    *)
(* (as testClientBuilder.clients does); a host/port is a small integer.    *)
(* A serviceEndpoint is represented by its hostPort(), the only part of it *)
(* the cluster code reads.                                                 *)
(***************************************************************************)
EXTENDS Integers, Sequences, FiniteSets, TLC

\* ---------------------------------------------------------------- bounds
NumHostPorts == 3       \* host/ports a roster is drawn from
MaxClients == 4         \* node clients the builder makes in one run
MaxCloseCalls == 2      \* Close() calls per node client
MaxAttempts == 3        \* largest RetryMaxAttempts of a request
NumCallers == 2         \* goroutines that call cluster.refresh
NumSeeds == 2           \* addresses of the seeds that pullEndpoints asks
MaxClock == 4           \* the last tick of the clocks
NumReaders == 2         \* goroutines that run read requests on one node client
MaxAddRouteCalls == 1   \* addRoute calls of one health status
MaxRouteEvents == 6     \* routes added, routes removed and fail-open events counted
NumAcquirers == 2       \* goroutines that acquire tubes from one pool
GateSize == 1           \* maxConcurrentConnAttempts of the pool
MaxTubes == 2           \* tubes dialed with success in one run
MaxGets == 3            \* getWithContext calls in one run
MaxPoolCloseCalls == 2  \* Close() calls on the pool
NumGetters == 3         \* goroutines that call Lru.GetWithContext
NumKeys == 3            \* keys given to Lru.GetWithContext
MaxSerialGets == 4      \* calls of the one goroutine of SpecLruAlone
LruMaxEntries == 1      \* Lru.MaxEntries
MaxNumLen == 4          \* characters of a number given to the codec
NumTubes == 2            \* connections of the pool of one node client
NumAccessKeys == 2       \* access keys the credentials provider returns
MaxNow == 3              \* the last second of the clock of a node client
tubeAuthWindowSecs == 2  \* seconds an auth frame stays valid on a tube
MaxNodeAttempts == 1     \* the largest RetryMaxAttempts of a node client
MaxListLen == 2         \* members of a set or list given to the codec

HostPorts == 1..NumHostPorts
ClientIds == 1..MaxClients
NoClient == 0           \* a nil DaxAPI

VARIABLES
    \* cluster (cluster.go:371-386)
    active,           \* map hostPort -> clientAndConfig
    routes,           \* routeManager.routes: the set of the clients listed
    isEnabled,        \* routeManager.isEnabled
    closed,
    lastRefreshErr,
    sinceLastUpdate,  \* "beyond" when now - lastUpdateNs > ClusterUpdateThreshold, else "within"
    \* the client builder and the node clients it made
    nextClient,       \* len(clientBuilder.clients) + 1
    closeCalls,       \* client -> number of Close() calls on it
    healthCheckCalls, \* client -> number of startHealthChecks calls on it
    \* observation of the most recent operation that changed the cluster
    last,
    \* one request in ClusterDaxClient.retry
    rt,
    rtLog,
    \* the parts modelled on their own, each in one record
    rf,               \* the callers of cluster.refresh and lastUpdateNs
    hs,               \* an enabledHealthStatus and the calls it made
    fo,               \* a routeManager with its fail-open bookkeeping
    tp,               \* a tubePool and its acquirers
    lru,              \* a single-flight lru cache and its callers
    cb,               \* an attribute value on its way through the cbor codec
    lk,               \* the cluster lock, the task executor and the goroutines at them
    sc,               \* a SingleDaxClient, its tubes and the requests on them
    pb                \* the health check tasks of the node clients of a cluster

clusterVars == <<active, routes, isEnabled, closed, lastRefreshErr, sinceLastUpdate,
                 nextClient, closeCalls, healthCheckCalls, last>>
retryVars == <<rt, rtLog>>
partVars == <<rf, hs, fo, tp, lru, cb, lk, sc, pb>>
offCluster == <<retryVars, partVars>>
vars == <<clusterVars, retryVars, partVars>>

Range(s) == {s[i] : i \in DOMAIN s}
Put(m, k, v) == [x \in (DOMAIN m) \cup {k} |-> IF x = k THEN v ELSE m[x]]
EmptyMap == [x \in {} |-> 0]

\* rosters a discovery call reports: duplicate-free lists of endpoints.
\* Host/ports are interchangeable, so the lists are taken in ascending order:
\* every relative order of known and new endpoints still occurs.
Rosters == {s \in UNION {[1..n -> HostPorts] : n \in 0..NumHostPorts} :
               \A i, j \in DOMAIN s : i < j => s[i] < s[j]}

\* the clients held by a map hostPort -> clientAndConfig
ClientsOf(m) == {m[hp].client : hp \in DOMAIN m}

\* ------------------------------------------------------------ route manager
\* The route list holds no client twice (a roster names no endpoint twice), and
\* its order is read by nothing but getRoute's cursor; the model keeps the set
\* of the clients listed, the length of the list being the size of the set.

\* routeManager.setRoutes: the route list becomes the given list
setRoutesNone(newRoutes) == {}
setRoutes(newRoutes) == Range(newRoutes)

\* routeManager.getRoute(prev): the routes it can return; nothing when there
\* is no route, else a route of the list, not prev when there is another one
getRoute(rs, prev) ==
    IF rs = {} THEN {NoClient}
    ELSE IF rs \ {prev} = {} THEN rs
    ELSE rs \ {prev}

\* routeManager.removeRoute(endpoint, route, active): the route list it
\* leaves.  Disabled, it does nothing.  Enabled, it takes the route out while
\* more than two routes are listed; otherwise it fails open and rebuilds the
\* list from active.
removeRoute(route, hostClientMap) ==
    IF ~isEnabled THEN routes
    ELSE IF Cardinality(routes) > 2 THEN routes \ {route}
    ELSE ClientsOf(hostClientMap)

\* ------------------------------------------------------------ cluster.update
\* newEndpoints: the host/ports of the roster
newEndpoints(config) == {config[i] : i \in DOMAIN config}

\* the client instances that are no longer part of the roster
InactiveClients(oldActive, config) ==
    {oldActive[ep] : ep \in (DOMAIN oldActive) \ newEndpoints(config)}

\* cliAndCfg, alreadyExists := oldActive[ep.hostPort()]
alreadyExistsNever(oldActive, ep) == FALSE
alreadyExists(oldActive, ep) == ep \in DOMAIN oldActive

\* the loop that creates client instances for the new endpoints in the
\* roster; failAt is the roster index at which newSingleClient returns an
\* error (0: every build succeeds).  st carries the loop's locals.
RECURSIVE BuildLoop(_, _, _, _, _)
BuildLoop(oldActive, config, i, failAt, st) ==
    IF i > Len(config) THEN st
    ELSE LET ep == config[i] IN
         IF alreadyExists(oldActive, ep)
         THEN BuildLoop(oldActive, config, i + 1, failAt,
                  [st EXCEPT !.newActive = Put(@, ep, oldActive[ep]),
                             !.newRoutes = Append(@, oldActive[ep].client)])
         ELSE IF i = failAt
         THEN [st EXCEPT !.shouldUpdateRoutes = FALSE]
         ELSE LET cliAndCfg == [client |-> st.next, cfg |-> ep] IN
              BuildLoop(oldActive, config, i + 1, failAt,
                  [st EXCEPT !.newActive = Put(@, ep, cliAndCfg),
                             !.newRoutes = Append(@, cliAndCfg.client),
                             !.newCliCfg = Append(@, cliAndCfg),
                             !.next = @ + 1])

\* what is closed once the lock is released: the inactive clients and, when
\* the routes are not updated, the newly created clients as well
CleanupInactiveOnly(shouldUpdateRoutes, toClose, newCliCfg) == toClose
Cleanup(shouldUpdateRoutes, toClose, newCliCfg) ==
    IF shouldUpdateRoutes THEN toClose ELSE toClose \cup Range(newCliCfg)

\* the locals of update when it releases the lock
UpdateLocals(config, failAt) ==
    LET st0 == [newActive |-> EmptyMap, newRoutes |-> <<>>, newCliCfg |-> <<>>,
                next |-> nextClient, shouldUpdateRoutes |-> TRUE]
    IN  IF closed
        THEN [st0 EXCEPT !.shouldUpdateRoutes = FALSE] @@ [toClose |-> {}]
        ELSE LET st == BuildLoop(active, config, 1, failAt, st0)
             IN  st @@ [toClose |-> Cleanup(st.shouldUpdateRoutes,
                                            InactiveClients(active, config),
                                            st.newCliCfg)]

\* closeClient on each client of cs.  update hands these calls to a goroutine
\* and onHealthCheckFailed makes them once the lock is released; a node
\* client's Close touches nothing of the cluster, so the calls are counted
\* with the step that issues them.
closeClient(cs) == [c \in ClientIds |-> closeCalls[c] + (IF c \in cs THEN 1 ELSE 0)]
CanClose(cs) == \A c \in cs : closeCalls[c] < MaxCloseCalls

\* update from the release of the lock on, u being its locals
updateCommit(u, built, closing) ==
        /\ u.next <= MaxClients + 1
        /\ CanClose(closing)
        /\ IF u.shouldUpdateRoutes
           THEN /\ active' = u.newActive
                /\ routes' = setRoutes(u.newRoutes)
           ELSE UNCHANGED <<active, routes>>
        /\ nextClient' = u.next
        /\ healthCheckCalls' = [c \in ClientIds |->
                                  healthCheckCalls[c] + (IF c \in built THEN 1 ELSE 0)]
        /\ closeCalls' = closeClient(closing)
        /\ last' = [op |-> "update", built |-> built, toClose |-> closing,
                    failed |-> (~closed /\ ~u.shouldUpdateRoutes)]
        /\ UNCHANGED closed

updateUnlocked(u) ==
    updateCommit(u, {u.newCliCfg[k].client : k \in DOMAIN u.newCliCfg},
                    {cc.client : cc \in u.toClose})

update(config, failAt) == updateUnlocked(UpdateLocals(config, failAt))

\* ------------------------------------------------------------ refresh
\* cluster.hasChanged
hasChanged(cfg) ==
    \/ \E i \in DOMAIN cfg : cfg[i] \notin DOMAIN active
    \/ Len(cfg) # Cardinality(DOMAIN active)

\* what pullEndpoints can return: the roster of the first seed that answers
\* with a non-empty one, else no roster and the last error (nil when every
\* answer was empty)
PullResults ==
    {[err |-> "discovery", cfg |-> <<>>]} \cup {[err |-> "nil", cfg |-> r] : r \in Rosters}

\* refresh's gate: now - last > ClusterUpdateThreshold || force
shouldPull(force) == sinceLastUpdate = "beyond" \/ force

\* the roster indexes at which a build can fail: those of the new endpoints
FailPoints(cfg) == {0} \cup {i \in DOMAIN cfg : ~alreadyExists(active, cfg[i])}

\* the builds refreshNow comes to with the pull result res
BuildsOf(res) == IF res.err = "nil" /\ hasChanged(res.cfg) THEN FailPoints(res.cfg) ELSE {0}

\* the error update returns to refreshNow
updateResult(buildFailed) == "nil"

\* safeRefresh -> refresh -> refreshNow: the gate and the CAS on lastUpdateNs,
\* pullEndpoints (its result is res), hasChanged, update; safeRefresh stores
\* the error in lastRefreshErr
safeRefresh(force, res, failAt) ==
    /\ IF ~shouldPull(force)
       THEN /\ lastRefreshErr' = "nil"
            /\ UNCHANGED <<active, routes, closed, nextClient, closeCalls,
                           healthCheckCalls, sinceLastUpdate, last>>
       ELSE /\ sinceLastUpdate' = "within"
            /\ IF res.err # "nil"
               THEN /\ lastRefreshErr' = res.err
                    /\ UNCHANGED <<active, routes, closed, nextClient,
                                   closeCalls, healthCheckCalls, last>>
               ELSE IF ~hasChanged(res.cfg)
               THEN /\ lastRefreshErr' = "nil"
                    /\ UNCHANGED <<active, routes, closed, nextClient,
                                   closeCalls, healthCheckCalls, last>>
               ELSE /\ update(res.cfg, failAt)
                    /\ lastRefreshErr' = updateResult(last'.failed)
    /\ UNCHANGED isEnabled
    /\ UNCHANGED offCluster

\* more than ClusterUpdateThreshold passes since the last pull
Tick ==
    /\ sinceLastUpdate = "within"
    /\ sinceLastUpdate' = "beyond"
    /\ UNCHANGED <<active, routes, isEnabled, closed, lastRefreshErr, nextClient,
                   closeCalls, healthCheckCalls, last>>
    /\ UNCHANGED offCluster

\* ------------------------------------------------------------ onHealthCheckFailed
\* the client closed after the lock is released
oldClientKept(ok, shouldCloseOldClient, oldClient) == {}
oldClientAlways(ok, shouldCloseOldClient, oldClient) == IF ok THEN {oldClient} ELSE {}
oldClientToClose(ok, shouldCloseOldClient, oldClient) ==
    IF shouldCloseOldClient /\ ok THEN {oldClient} ELSE {}

\* the entry stored at active[host] after a successful rebuild
replacedActive(host, cli) == Put(active, host, [client |-> cli, cfg |-> active[host].cfg])

\* newRoutes of the rebuild: the clients of active, in the order the map is
\* ranged over
rebuiltRoutes(newActive) ==
    CHOOSE s \in [1..Cardinality(DOMAIN newActive) -> ClientsOf(newActive)] :
        Range(s) = ClientsOf(newActive)

onHealthCheckFailed(host, buildOk) ==
    LET ok == host \in DOMAIN active
        oldClient == IF ok THEN active[host].client ELSE NoClient
        rebuilt == ok /\ buildOk
        closing == oldClientToClose(ok, ~ok \/ buildOk, oldClient)
    IN  /\ rebuilt => nextClient <= MaxClients
        /\ CanClose(closing)
        /\ IF rebuilt
           THEN /\ active' = replacedActive(host, nextClient)
                /\ routes' = setRoutes(rebuiltRoutes(active'))
                /\ nextClient' = nextClient + 1
                /\ healthCheckCalls' = [healthCheckCalls EXCEPT ![nextClient] = @ + 1]
           ELSE UNCHANGED <<active, routes, nextClient, healthCheckCalls>>
        /\ closeCalls' = closeClient(closing)
        /\ last' = IF ok
                   THEN [op |-> "onHealthCheckFailed",
                         built |-> IF rebuilt THEN {nextClient} ELSE {},
                         toClose |-> closing, failed |-> ~buildOk]
                   ELSE last
        /\ UNCHANGED <<isEnabled, closed, lastRefreshErr, sinceLastUpdate>>

\* the health check of a node client built for host failed (the client may
\* since have been replaced or dropped from active)
OnHealthCheckFailed(host, buildOk) ==
    /\ onHealthCheckFailed(host, buildOk)
    /\ UNCHANGED offCluster

\* ------------------------------------------------------------ route listener
\* cluster.removeRoute, called by the health status of node client c
RemoveRoute(c) ==
    /\ ~closed
    /\ c < nextClient
    /\ routes' = removeRoute(c, active)
    /\ last' = IF routes' # routes
               THEN [op |-> "removeRoute", built |-> {}, toClose |-> {}, failed |-> FALSE]
               ELSE last
    /\ UNCHANGED <<active, isEnabled, closed, lastRefreshErr, sinceLastUpdate, nextClient,
                   closeCalls, healthCheckCalls>>
    /\ UNCHANGED offCluster

\* ------------------------------------------------------------ Close
\* the closeClient calls of Close: one per entry of active
closeCallsNone(c) == 0
closeCallsOfClose(c) == Cardinality({hp \in DOMAIN active : active[hp].client = c})

Close ==
    /\ ~closed
    /\ CanClose(ClientsOf(active))
    /\ closed' = TRUE
    /\ closeCalls' = [c \in ClientIds |-> closeCalls[c] + closeCallsOfClose(c)]
    /\ active' = EmptyMap
    /\ routes' = {}
    /\ last' = [op |-> "Close", built |-> {},
                toClose |-> ClientsOf(active), failed |-> FALSE]
    /\ UNCHANGED <<isEnabled, lastRefreshErr, sinceLastUpdate, nextClient,
                   healthCheckCalls>>
    /\ UNCHANGED offCluster

\* ------------------------------------------------------------ the cluster
NoOp == [op |-> "none", built |-> {}, toClose |-> {}, failed |-> FALSE]

\* newCluster: no active client, no route, lastUpdateNs = 0
InitCluster ==
    /\ active = EmptyMap
    /\ routes = {}
    /\ isEnabled \in BOOLEAN
    /\ closed = FALSE
    /\ lastRefreshErr = "nil"
    /\ sinceLastUpdate = "beyond"
    /\ nextClient = 1
    /\ closeCalls = [c \in ClientIds |-> 0]
    /\ healthCheckCalls = [c \in ClientIds |-> 0]
    /\ last = NoOp

RtIdle == [pc |-> "idle"]
RtLogIdle == [calls |-> <<>>]

\* a part that takes no step in a specification holds this value
PartsIdle == rf = EmptyMap /\ hs = EmptyMap /\ fo = EmptyMap /\ tp = EmptyMap /\ lru = EmptyMap
             /\ cb = EmptyMap /\ lk = EmptyMap /\ sc = EmptyMap /\ pb = EmptyMap

Init == InitCluster /\ rt = RtIdle /\ rtLog = RtLogIdle /\ PartsIdle

Next ==
    \/ \E force \in BOOLEAN, res \in PullResults :
          \E failAt \in BuildsOf(res) : safeRefresh(force, res, failAt)
    \/ Tick
    \/ \E host \in HostPorts, buildOk \in BOOLEAN : OnHealthCheckFailed(host, buildOk)
    \/ \E c \in ClientIds : RemoveRoute(c)
    \/ Close

Spec == Init /\ [][Next]_vars

\* ------------------------------------------------------------ errors
\* an error value: its type, the code sequence of a daxRequestFailure, and
\* the call of the action that produced it (0: not produced by a call)
NoError == [type |-> "nil", codes |-> <<>>, n |-> 0]
RequestFailure(codes, n) == [type |-> "daxRequestFailure", codes |-> codes, n |-> n]
OtherError(type, n) == [type |-> type, codes |-> <<>>, n |-> n]

\* the code sequences the action's failures carry
RetryableCodes == {<<1>>, <<2>>, <<4, 23, 31, 33>>, <<4, 37, 38, 39, 50>>}
CodeSequences == RetryableCodes \cup {<<0>>, <<4, 23, 24>>}

\* what one call of the action can return
ActionErrors(n) ==
    {NoError} \cup {RequestFailure(cs, n) : cs \in CodeSequences}
              \cup {OtherError(t, n) : t \in {"validation", "io", "encode", "canceled"}}

IsPrefix(p, codes) == Len(p) <= Len(codes) /\ \A k \in DOMAIN p : codes[k] = p[k]

\* the throttling condition of a code sequence
isThrottling(codes) == IsPrefix(<<4, 37, 38, 39, 50>>, codes) \/ IsPrefix(<<4, 37, 38, 39, 40>>, codes)

\* isRetryable(opt, err): a daxRequestFailure whose code sequence begins with
\* {1}, {2} or {4,23,31,33}, or tells a throttling condition
isRetryable(err) ==
    /\ err.type = "daxRequestFailure"
    /\ \/ IsPrefix(<<1>>, err.codes)
       \/ IsPrefix(<<2>>, err.codes)
       \/ IsPrefix(<<4, 23, 31, 33>>, err.codes)
       \/ isThrottling(err.codes)

\* the user error kind of a code sequence
ErrorKind(codes) ==
    IF IsPrefix(<<4, 23, 24>>, codes) THEN "ResourceNotFoundException"
    ELSE IF IsPrefix(<<4, 37, 38, 39, 40>>, codes) THEN "ProvisionedThroughputExceededException"
    ELSE IF IsPrefix(<<4, 37, 38, 39, 50>>, codes) THEN "ThrottlingException"
    ELSE "GenericAPIError"

\* convertDaxError: the typed error of the taxonomy for a daxError
convertDaxError(err) == [type |-> ErrorKind(err.codes), codes |-> err.codes, n |-> err.n]

\* DaxRetryer.RetryDelay(attempt, err): a backoff for throttling errors, zero
\* for the others
RetryDelay(attempt, err) == IF isThrottling(err.codes) THEN 1 ELSE 0

\* SleepWithContext(ctx, op, delay): nil after the delay, the context's
\* error when the context ends first
SleepWithContext(ctx) ==
    IF ctx = "canceled" THEN OtherError("canceled", 0)
    ELSE IF ctx = "expired" THEN OtherError("OperationError", 0)
    ELSE NoError

\* ------------------------------------------------------------ ClusterDaxClient.retry
\* defer: if daxErr, ok := err.(daxError); ok { err = convertDaxError(daxErr) }
retryResultRaw(err) == err
retryResult(err) == IF err.type = "daxRequestFailure" THEN convertDaxError(err) ELSE err

\* opt.RetryMaxAttempts = 0: retries are disabled on the single node client
nodeRetryMaxAttempts(attempts) == 0

\* for i := 0; i <= attempts; i++
RetryLoopCondOneMore(i, attempts) == i <= attempts + 1
RetryLoopCond(i, attempts) == i <= attempts

\* if !isRetryable(opt, err) { return err }
returnsNever(err) == FALSE
returnsAtOnce(err) == ~isRetryable(err)

\* if err = SleepWithContext(ctx, op, delay); err != nil { return err }
sleepErrIgnored(err) == FALSE
sleepFailed(err) == err # NoError

\* i++ and the loop test: the next attempt, or the loop's end and return err
NextIteration(r) ==
    IF RetryLoopCond(r.i + 1, r.attempts)
    THEN [r EXCEPT !.i = @ + 1, !.pc = "attempt"]
    ELSE [r EXCEPT !.i = @ + 1, !.pc = "done", !.result = retryResult(r.err)]

\* the request: RetryMaxAttempts = m, opt.RetryDelay = d
Request(m, d) ==
    [pc |-> "attempt", attempts |-> m, optRetryMaxAttempts |-> nodeRetryMaxAttempts(m),
     optRetryDelay |-> d, i |-> 0, client |-> NoClient, err |-> NoError,
     ctx |-> "live", result |-> NoError]

\* cluster.client: if route == nil, the 'no routes found' error
noRoutesFoundNever(route) == FALSE
noRoutesFound(route) == route = NoClient

\* client, err = cc.cluster.client(client, op): the route of the previous
\* attempt is handed to getRoute as prev (nil on the first attempt)
prevRouteNil(r) == NoClient
prevRoute(r) == r.client

\* one pass of the loop body up to the sleep: cluster.client, the action
\* (its return value is ret), the classification of the error
RetryAttempt(route, ret) ==
    /\ rt.pc = "attempt"
    /\ route \in getRoute(routes, prevRoute(rt))
    /\ LET n == Len(rtLog.calls) + 1
           called == ~noRoutesFound(route)
           err == IF called THEN ret ELSE OtherError("OperationError", 0)
           r == [rt EXCEPT !.client = route, !.err = err]
           delay == IF RetryDelay(r.i + 1, err) = 0 THEN r.optRetryDelay
                    ELSE RetryDelay(r.i + 1, err)
       IN  /\ ret \in ActionErrors(n)
           /\ ~called => ret = NoError
           /\ rtLog' = IF called
                       THEN [rtLog EXCEPT !.calls = Append(@,
                                [client |-> route, retryMaxAttempts |-> r.optRetryMaxAttempts,
                                 ret |-> ret, sleeps |-> rtLog.sleeps])]
                       ELSE rtLog
           /\ rt' = IF err = NoError
                    THEN [r EXCEPT !.pc = "done", !.result = NoError]
                    ELSE IF returnsAtOnce(err)
                    THEN [r EXCEPT !.pc = "done", !.result = retryResult(err)]
                    ELSE IF r.i # r.attempts /\ delay > 0
                    THEN [r EXCEPT !.pc = "sleep"]
                    ELSE NextIteration(r)
    /\ UNCHANGED <<clusterVars, partVars>>

\* SleepWithContext returns
RetrySleep ==
    /\ rt.pc = "sleep"
    /\ LET err == SleepWithContext(rt.ctx)
       IN  /\ rt' = IF sleepFailed(err)
                    THEN [rt EXCEPT !.pc = "done", !.err = err, !.result = retryResult(err)]
                    ELSE NextIteration([rt EXCEPT !.err = err])
           /\ rtLog' = [rtLog EXCEPT !.sleeps = @ + 1,
                                     !.endedAsleep = @ \/ rt.ctx # "live"]
    /\ UNCHANGED <<clusterVars, partVars>>

\* the caller cancels the request's context, or its deadline passes
ContextDone(how) ==
    /\ rt.pc \in {"attempt", "sleep"}
    /\ rt.ctx = "live"
    /\ rt' = [rt EXCEPT !.ctx = how]
    /\ rtLog' = [rtLog EXCEPT !.doneAsleep = IF rt.pc = "sleep" THEN how ELSE @,
                              !.callsThen = Len(rtLog.calls)]
    /\ UNCHANGED <<clusterVars, partVars>>

\* a cluster of n nodes, as the first refresh leaves it (none when the roster
\* it pulled was empty)
ClusterOf(n) ==
    /\ active = [hp \in 1..n |-> [client |-> hp, cfg |-> hp]]
    /\ routes = 1..n
    /\ isEnabled \in BOOLEAN
    /\ closed = FALSE
    /\ lastRefreshErr = "nil"
    /\ sinceLastUpdate = "within"
    /\ nextClient = n + 1
    /\ closeCalls = [c \in ClientIds |-> 0]
    /\ healthCheckCalls = [c \in ClientIds |-> IF c <= n THEN 1 ELSE 0]
    /\ last = [op |-> "update", built |-> 1..n, toClose |-> {}, failed |-> FALSE]

RtLogEmpty == [calls |-> <<>>, sleeps |-> 0, endedAsleep |-> FALSE,
               doneAsleep |-> "no", callsThen |-> 0]

InitRetry ==
    /\ \E n \in 0..2 : ClusterOf(n)
    /\ \E m \in 0..MaxAttempts, d \in {0, 1} : rt = Request(m, d)
    /\ rtLog = RtLogEmpty
    /\ PartsIdle

NextRetry ==
    \/ \E route \in {NoClient} \cup ClientIds, ret \in ActionErrors(Len(rtLog.calls) + 1) :
          RetryAttempt(route, ret)
    \/ RetrySleep
    \/ \E how \in {"canceled", "expired"} : ContextDone(how)

SpecRetry == InitRetry /\ [][NextRetry]_vars

\* ------------------------------------------------------------ cluster.refresh, concurrent
\* The callers of refresh (the periodic task of start and start itself) run
\* side by side: refresh takes no lock, it reads lastUpdateNs, reads the
\* clock, and claims the pull with a compare-and-swap.  Time is counted in
\* ticks; the clock starts beyond the threshold, as UnixNano does.
ClusterUpdateThreshold == 1

Callers == 1..NumCallers
offRefresh == <<clusterVars, retryVars, hs, fo, tp, lru, cb, lk, sc, pb>>

\* what safeRefresh leaves alone
offSafeRefresh == <<active, routes, isEnabled, closed, sinceLastUpdate, nextClient,
                    closeCalls, healthCheckCalls, last, retryVars,
                    hs, fo, tp, lru, cb, lk, sc, pb>>

\* what the addresses of the seeds answer to pullEndpoints, in the order they
\* are asked: the lookup of the host fails, newClient fails, the endpoints
\* call fails, or it returns a roster, empty or not
Answers == {"lookup", "newClient", "endpoints", "empty", "roster"}
SeedAnswers == UNION {[1..n -> Answers] : n \in 1..NumSeeds}

\* pullEndpoints: the first roster that is not empty wins and ends the loop,
\* every error replaces lastErr; built and closed count the discovery clients
RECURSIVE pullEndpoints(_, _, _)
pullEndpoints(answers, i, st) ==
    IF i > Len(answers) THEN st
    ELSE IF answers[i] \in {"lookup", "newClient"}
    THEN pullEndpoints(answers, i + 1, [st EXCEPT !.err = answers[i]])
    ELSE LET called == [st EXCEPT !.built = @ + 1, !.closed = @ + 1, !.calls = @ + 1] IN
         IF answers[i] = "endpoints"
         THEN pullEndpoints(answers, i + 1, [called EXCEPT !.err = "endpoints"])
         ELSE IF answers[i] = "empty"
         THEN pullEndpoints(answers, i + 1, called)
         ELSE [called EXCEPT !.err = "nil", !.found = TRUE]

NoPull == [err |-> "nil", found |-> FALSE, built |-> 0, closed |-> 0, calls |-> 0]

\* now-last > c.config.ClusterUpdateThreshold.Nanoseconds() || force
gateOpen(lastNs, nowNs, force) == nowNs - lastNs > ClusterUpdateThreshold \/ force

\* last := atomic.LoadInt64(&c.lastUpdateNs); now := time.Now().UnixNano();
\* the gate: closed, refresh returns nil
RefreshEnter(p, force) ==
    /\ rf.pc[p] = "idle"
    /\ rf' = IF gateOpen(rf.lastUpdateNs, rf.clock, force)
             THEN [rf EXCEPT !.pc[p] = "cas", !.last[p] = rf.lastUpdateNs,
                             !.now[p] = rf.clock, !.force[p] = force]
             ELSE [rf EXCEPT !.gated = TRUE]
    /\ lastRefreshErr' = IF gateOpen(rf.lastUpdateNs, rf.clock, force)
                         THEN lastRefreshErr ELSE "nil"
    /\ UNCHANGED offSafeRefresh

\* atomic.CompareAndSwapInt64(&c.lastUpdateNs, last, now): won, refreshNow
\* starts; lost, refresh returns nil and safeRefresh stores it
RefreshCAS(p) ==
    /\ rf.pc[p] = "cas"
    /\ rf' = IF rf.lastUpdateNs = rf.last[p]
             THEN [rf EXCEPT !.pc[p] = "refreshNow", !.lastUpdateNs = rf.now[p]]
             ELSE [rf EXCEPT !.pc[p] = "idle", !.lostCAS = TRUE]
    /\ lastRefreshErr' = IF rf.lastUpdateNs = rf.last[p] THEN lastRefreshErr ELSE "nil"
    /\ UNCHANGED offSafeRefresh

\* refreshNow returns: the pull, and the update if there was one, are over;
\* safeRefresh stores the error of the pull in lastRefreshErr
RefreshNowReturns(p, answers) ==
    /\ rf.pc[p] = "refreshNow"
    /\ LET pull == pullEndpoints(answers, 1, NoPull) IN
       /\ rf' = [rf EXCEPT !.pc[p] = "idle", !.pull = pull]
       /\ lastRefreshErr' = pull.err
    /\ UNCHANGED offSafeRefresh

\* the clock moves on
RefreshTick ==
    /\ rf.clock < MaxClock
    /\ rf' = [rf EXCEPT !.clock = @ + 1]
    /\ UNCHANGED offRefresh

\* newCluster: lastUpdateNs = 0, nobody in refresh
InitRefresh ==
    /\ InitCluster /\ isEnabled = FALSE
    /\ rt = RtIdle /\ rtLog = RtLogIdle
    /\ rf = [lastUpdateNs |-> 0, clock |-> ClusterUpdateThreshold + 1,
             pc |-> [p \in Callers |-> "idle"], last |-> [p \in Callers |-> 0],
             now |-> [p \in Callers |-> 0], force |-> [p \in Callers |-> FALSE],
             gated |-> FALSE, lostCAS |-> FALSE, pull |-> NoPull]
    /\ hs = EmptyMap /\ fo = EmptyMap /\ tp = EmptyMap /\ lru = EmptyMap
    /\ cb = EmptyMap /\ lk = EmptyMap /\ sc = EmptyMap /\ pb = EmptyMap

NextRefresh ==
    \/ \E p \in Callers, force \in BOOLEAN : RefreshEnter(p, force)
    \/ \E p \in Callers : RefreshCAS(p)
    \/ \E p \in Callers, answers \in SeedAnswers : RefreshNowReturns(p, answers)
    \/ RefreshTick

SpecRefresh == InitRefresh /\ [][NextRefresh]_vars

\* ------------------------------------------------------------ enabledHealthStatus
\* One enabledHealthStatus, the read requests of its node client (they run
\* side by side and report to it) and the client's health check task.  Each
\* handler looks at the state under the read lock, lets go of it, and takes
\* the write lock to change the state: its two halves are two steps.
timeoutErrorThreshold == 5

Readers == 1..NumReaders
offHealth == <<clusterVars, retryVars, rf, fo, tp, lru, cb, lk, sc, pb>>

\* onErrorInReadRequest up to hs.lock.Lock(): errors that are not I/O errors
\* and errors of an unhealthy client are dropped
ErrorInReadRequest(g, isIOError) ==
    /\ hs.pc[g] = "idle"
    /\ hs' = IF isIOError /\ hs.isHealthy
             THEN [hs EXCEPT !.pc[g] = "onError"]
             ELSE [hs EXCEPT !.dropped = TRUE]
    /\ UNCHANGED offHealth

\* onErrorInReadRequest under the write lock
ErrorInReadRequestLocked(g) ==
    /\ hs.pc[g] = "onError"
    /\ LET count == hs.curReadTimeoutCount + 1
       IN  hs' = IF count >= timeoutErrorThreshold
                 THEN [hs EXCEPT !.pc[g] = "idle", !.curReadTimeoutCount = count,
                                 !.isHealthy = FALSE,
                                 !.removeRouteCalls = @ + 1]
                 ELSE [hs EXCEPT !.pc[g] = "idle", !.curReadTimeoutCount = count]
    /\ UNCHANGED offHealth

\* onSuccessInReadRequest up to hs.lock.Lock()
SuccessInReadRequest(g) ==
    /\ hs.pc[g] = "idle"
    /\ hs' = IF hs.curReadTimeoutCount = 0 \/ ~hs.isHealthy
             THEN [hs EXCEPT !.dropped = TRUE]
             ELSE [hs EXCEPT !.pc[g] = "onSuccess"]
    /\ UNCHANGED offHealth

\* onSuccessInReadRequest under the write lock
SuccessInReadRequestLocked(g) ==
    /\ hs.pc[g] = "onSuccess"
    /\ hs' = [hs EXCEPT !.pc[g] = "idle", !.curReadTimeoutCount = 0, !.resets = TRUE]
    /\ UNCHANGED offHealth

\* onHealthCheckSuccess up to hs.lock.Lock(), called by the health check task
HealthCheckSuccess ==
    /\ hs.check = "idle"
    /\ hs.addRouteCalls < MaxAddRouteCalls
    /\ hs' = IF hs.curReadTimeoutCount = 0 /\ hs.isHealthy
             THEN [hs EXCEPT !.dropped = TRUE]
             ELSE [hs EXCEPT !.check = "onHealthCheckSuccess"]
    /\ UNCHANGED offHealth

\* onHealthCheckSuccess: if !hs.isHealthy, the node is healthy again and
\* addRoute is called
becomesHealthyAlways(isHealthy) == TRUE
becomesHealthy(isHealthy) == ~isHealthy

\* onHealthCheckSuccess under the write lock
HealthCheckSuccessLocked ==
    /\ hs.check = "onHealthCheckSuccess"
    /\ hs' = IF becomesHealthy(hs.isHealthy)
             THEN [hs EXCEPT !.check = "idle", !.curReadTimeoutCount = 0,
                             !.isHealthy = TRUE, !.addRouteCalls = @ + 1]
             ELSE [hs EXCEPT !.check = "idle", !.curReadTimeoutCount = 0]
    /\ UNCHANGED offHealth

\* newHealthStatus with an enabled route listener
InitHealth ==
    /\ InitCluster /\ isEnabled = TRUE
    /\ rt = RtIdle /\ rtLog = RtLogIdle
    /\ hs = [isHealthy |-> TRUE, curReadTimeoutCount |-> 0,
             pc |-> [g \in Readers |-> "idle"], check |-> "idle",
             removeRouteCalls |-> 0, addRouteCalls |-> 0,
             dropped |-> FALSE, resets |-> FALSE]
    /\ rf = EmptyMap /\ fo = EmptyMap /\ tp = EmptyMap /\ lru = EmptyMap
    /\ cb = EmptyMap /\ lk = EmptyMap /\ sc = EmptyMap /\ pb = EmptyMap

NextHealth ==
    \/ \E g \in Readers, isIOError \in BOOLEAN : ErrorInReadRequest(g, isIOError)
    \/ \E g \in Readers : ErrorInReadRequestLocked(g)
    \/ \E g \in Readers : SuccessInReadRequest(g)
    \/ \E g \in Readers : SuccessInReadRequestLocked(g)
    \/ HealthCheckSuccess
    \/ HealthCheckSuccessLocked

SpecHealth == InitHealth /\ [][NextHealth]_vars

\* ------------------------------------------------------------ routeManager, fail-open
\* The route manager of a cluster whose active map stays as it is, called
\* through cluster.addRoute and cluster.removeRoute by the health statuses of
\* node clients, some of them no longer in active.  Time is counted in ticks.
FailOpenWindow == 1     \* the short window of verifyAndDisable
DisableDuration == 2    \* routeManager.disableDuration

offRoutes == <<active, closed, lastRefreshErr, sinceLastUpdate, nextClient, closeCalls,
               healthCheckCalls, last, retryVars, rf, hs, tp, lru, cb, lk, sc, pb>>

\* the last three entries of a list
LastThree(l) == IF Len(l) <= 3 THEN l ELSE SubSeq(l, Len(l) - 2, Len(l))

\* routeManager.addRoute(endpoint, route): the route list it leaves
addRouteAlways(route) == routes \cup {route}
addRoute(route) == IF ~isEnabled THEN routes ELSE routes \cup {route}

\* verifyAndDisable(currTime): three fail-open times are on the list and all
\* of them fall within the window that ends at currTime
failOpenContinuousNever(list, currTime) == FALSE
failOpenContinuous(list, currTime) ==
    /\ Len(list) = 3
    /\ \A k \in DOMAIN list : currTime - list[k] <= FailOpenWindow

RouteEvents == fo.routesAdded + fo.routesRemoved + fo.failOpenEvents

\* cluster.addRoute
AddRoute(c) ==
    /\ ~closed
    /\ RouteEvents < MaxRouteEvents
    /\ routes' = addRoute(c)
    /\ fo' = IF ~isEnabled THEN [fo EXCEPT !.ignored = TRUE]
             ELSE [fo EXCEPT !.routesAdded = @ + (IF routes' # routes THEN 1 ELSE 0),
                             !.removeCalls = <<>>]
    /\ UNCHANGED isEnabled
    /\ UNCHANGED offRoutes

\* cluster.removeRoute: the route is taken out, or the manager fails open,
\* puts the fail-open time on its list and disables itself for
\* disableDuration when verifyAndDisable finds the list continuous
RemoveRouteAt(c) ==
    /\ ~closed
    /\ RouteEvents < MaxRouteEvents
    /\ routes' = removeRoute(c, active)
    /\ IF ~isEnabled
       THEN /\ fo' = [fo EXCEPT !.ignored = TRUE]
            /\ UNCHANGED isEnabled
       ELSE IF Cardinality(routes) > 2
       THEN /\ fo' = [fo EXCEPT !.routesRemoved = @ + (IF routes' # routes THEN 1 ELSE 0),
                                !.removeCalls = LastThree(Append(@, fo.clock))]
            /\ UNCHANGED isEnabled
       ELSE LET list == LastThree(Append(fo.failOpenTimeList, fo.clock))
                disable == failOpenContinuous(list, fo.clock)
            IN  /\ isEnabled' = ~disable
                /\ fo' = [fo EXCEPT !.failOpenEvents = @ + 1,
                                    !.failOpenTimeList = list,
                                    !.timer = IF disable THEN fo.clock + DisableDuration ELSE @,
                                    !.removeCalls = LastThree(Append(@, fo.clock))]
    /\ UNCHANGED offRoutes

\* the one-shot timer of the disabled manager fires: the routes are rebuilt
\* from active and the manager is enabled again
RouteTimerFires ==
    /\ fo.timer # 0
    /\ fo.clock >= fo.timer
    /\ isEnabled' = TRUE
    /\ routes' = ClientsOf(active)
    /\ fo' = [fo EXCEPT !.timer = 0, !.removeCalls = <<>>, !.timerFired = TRUE,
                        !.ignored = FALSE]
    /\ UNCHANGED offRoutes

\* the clock moves on; a timer that is due fires first
RouteTick ==
    /\ fo.clock < MaxClock
    /\ fo.timer = 0 \/ fo.clock < fo.timer
    /\ fo' = [fo EXCEPT !.clock = @ + 1]
    /\ UNCHANGED <<routes, isEnabled>>
    /\ UNCHANGED offRoutes

\* newRouteManager in a cluster of n nodes
InitRoutes ==
    /\ \E n \in 0..NumHostPorts : ClusterOf(n)
    /\ rt = RtIdle /\ rtLog = RtLogIdle
    /\ fo = [clock |-> 1, failOpenTimeList |-> <<>>, timer |-> 0,
             routesAdded |-> 0, routesRemoved |-> 0, failOpenEvents |-> 0,
             removeCalls |-> <<>>, timerFired |-> FALSE, ignored |-> FALSE]
    /\ rf = EmptyMap /\ hs = EmptyMap /\ tp = EmptyMap /\ lru = EmptyMap
    /\ cb = EmptyMap /\ lk = EmptyMap /\ sc = EmptyMap /\ pb = EmptyMap

NextRoutes ==
    \/ \E c \in ClientIds : AddRoute(c)
    \/ \E c \in ClientIds : RemoveRouteAt(c)
    \/ RouteTimerFires
    \/ RouteTick

SpecRoutes == InitRoutes /\ [][NextRoutes]_vars

\* ------------------------------------------------------------ tubePool
\* One tube pool and the goroutines that acquire tubes from it.  A tube is
\* numbered in the order the dials succeed; the idle stack is a sequence whose
\* last entry is the top (the tube put last).  tp.serial says that the run so
\* far is get and put calls of goroutine 1 alone, with no dial failing.
ErrClosed == "os.ErrClosed"
Acquirers == 1..NumAcquirers

offPool == <<clusterVars, retryVars, rf, hs, fo, lru, cb, lk, sc, pb>>

\* gate.tryEnter: whether a permit is free, and the permits taken after it
tryEnter(n) == n < GateSize
entered(n) == IF tryEnter(n) THEN n + 1 ELSE n
\* gate.exit: gives one permit back when one is taken
exitAlways(n) == n - 1
exit(n) == IF n > 0 THEN n - 1 ELSE n

\* the tube a get takes from the idle stack, and the stack it leaves
popOldest(idle) == [tube |-> idle[1], rest |-> Tail(idle)]
popKeeps(idle) == [tube |-> idle[Len(idle)], rest |-> idle]
pop(idle) == [tube |-> idle[Len(idle)], rest |-> SubSeq(idle, 1, Len(idle) - 1)]

\* whether a get that finds no idle tube dials: a high-priority get always
\* does, any other get when the gate lets it in
dials(highPriority, n) == highPriority \/ tryEnter(n)

\* put(tube): a closed pool, or a tube of another session, closes the tube
\* and counts it as closed for its session (tp.closedSession, the tubes of
\* the connections.closed.session events); otherwise the tube goes on top of
\* the idle stack
putAlways(pool, t) == [pool EXCEPT !.idle = Append(@, t)]
put(pool, t) == IF ~pool.closed /\ pool.tubeSession[t] = pool.session
                THEN [pool EXCEPT !.idle = Append(@, t)]
                ELSE [pool EXCEPT !.tubeClosed = @ \cup {t},
                                  !.closedSession = @ \cup {t}]

\* a goroutine out of getWithContext with the error of its last call, in its
\* wait, or with the tube it got
Out(err) == [pc |-> "out", tube |-> 0, err |-> err]

\* getWithContext(ctx, highPriority) up to its wait
PoolGet(p, highPriority) ==
    /\ tp.acq[p].pc = "out"
    /\ tp.gets < MaxGets
    /\ LET called == [tp EXCEPT !.gets = @ + 1, !.serial = @ /\ p = 1]
       IN  IF tp.closed
           THEN tp' = [called EXCEPT !.acq[p] = Out(ErrClosed)]
           ELSE IF tp.idle # <<>>
           THEN tp' = [called EXCEPT !.acq[p] = [pc |-> "holding", tube |-> pop(tp.idle).tube, err |-> "nil"],
                                     !.idle = pop(tp.idle).rest]
           ELSE IF dials(highPriority, tp.permits)
           THEN tp' = [called EXCEPT !.acq[p] = [Out("nil") EXCEPT !.pc = "waiting"],
                                     !.dialing = Append(@, [by |-> p, permit |-> ~highPriority,
                                                             session |-> tp.session]),
                                     !.permits = IF highPriority THEN @ ELSE entered(@)]
           ELSE tp' = [called EXCEPT !.acq[p] = [Out("nil") EXCEPT !.pc = "waiting"]]
    /\ UNCHANGED offPool

\* a waiting get finds a tube on the idle stack
PoolGetWakes(p) ==
    /\ tp.acq[p].pc = "waiting"
    /\ tp.idle # <<>>
    /\ tp' = [tp EXCEPT !.acq[p] = [pc |-> "holding", tube |-> pop(tp.idle).tube, err |-> "nil"], !.idle = pop(tp.idle).rest]
    /\ UNCHANGED offPool

\* the context of a waiting get is cancelled; its dial goes on
PoolGetCancelled(p) ==
    /\ tp.acq[p].pc = "waiting"
    /\ tp' = [tp EXCEPT !.acq[p] = Out("ctx.Err"), !.serial = FALSE]
    /\ UNCHANGED offPool

\* a dial ends: the permit goes back; the tube goes to the get that asked for
\* it when that one still waits, to the pool otherwise
DialEnds(i, ok) ==
    /\ i \in 1..Len(tp.dialing)
    /\ ok => tp.created < MaxTubes
    /\ LET d == tp.dialing[i]
           t == tp.created + 1
           left == [tp EXCEPT !.dialing = SubSeq(@, 1, i - 1) \o SubSeq(@, i + 1, Len(@)),
                              !.permits = IF d.permit THEN exit(@) ELSE @,
                              !.serial = @ /\ ok]
           made == [left EXCEPT !.created = t, !.tubeSession = Append(@, d.session)]
       IN  tp' = IF ~ok
                 THEN IF tp.acq[d.by].pc = "waiting"
                      THEN [left EXCEPT !.acq[d.by] = Out("dial error")]
                      ELSE left
                 ELSE IF tp.acq[d.by].pc = "waiting"
                      THEN [made EXCEPT !.acq[d.by] = [pc |-> "holding", tube |-> t, err |-> "nil"]]
                      ELSE put(made, t)
    /\ UNCHANGED offPool

\* put(tube) by the goroutine that holds it
PoolPut(p) ==
    /\ tp.acq[p].pc = "holding"
    /\ tp' = [put(tp, tp.acq[p].tube) EXCEPT !.acq[p] = Out("nil")]
    /\ UNCHANGED offPool

\* what Close() makes of a get: one that waits returns os.ErrClosed
wakeNone(a) == a
wake(a) == IF a.pc = "waiting" THEN Out(ErrClosed) ELSE a

\* Close(): the session moves on, the idle tubes are closed, and every get
\* that waits returns os.ErrClosed; a closed pool is left as it is
PoolClose ==
    /\ tp.closeCalls < MaxPoolCloseCalls
    /\ IF tp.closed
       THEN tp' = [tp EXCEPT !.closeCalls = @ + 1, !.closeErr = "nil", !.serial = FALSE]
       ELSE tp' = [tp EXCEPT !.closed = TRUE,
                             !.session = @ + 1,
                             !.tubeClosed = @ \cup {tp.idle[k] : k \in 1..Len(tp.idle)},
                             !.idle = <<>>,
                             !.acq = [p \in Acquirers |-> wake(tp.acq[p])],
                             !.closeCalls = @ + 1,
                             !.closeErr = "nil",
                             !.serial = FALSE]
    /\ UNCHANGED offPool

\* a gate of its own, entered and left in any order
GateTryEnter ==
    /\ tp' = [tp EXCEPT !.gate = entered(@)]
    /\ tp'.gate # tp.gate
    /\ UNCHANGED offPool

GateExit ==
    /\ tp' = [tp EXCEPT !.gate = exit(@)]
    /\ tp'.gate # tp.gate
    /\ UNCHANGED offPool

\* newTubePoolWithOptions
InitPool ==
    /\ ClusterOf(0)
    /\ rt = RtIdle /\ rtLog = RtLogIdle
    /\ tp = [closed |-> FALSE, session |-> 0, idle |-> <<>>, permits |-> 0,
             dialing |-> <<>>, created |-> 0, tubeSession |-> <<>>, tubeClosed |-> {},
             closedSession |-> {},
             acq |-> [p \in Acquirers |-> Out("nil")],
             gets |-> 0, closeCalls |-> 0, closeErr |-> "none", gate |-> 0,
             serial |-> TRUE]
    /\ rf = EmptyMap /\ hs = EmptyMap /\ fo = EmptyMap /\ lru = EmptyMap
    /\ cb = EmptyMap /\ lk = EmptyMap /\ sc = EmptyMap /\ pb = EmptyMap

NextPool ==
    \/ \E p \in Acquirers, highPriority \in BOOLEAN : PoolGet(p, highPriority)
    \/ \E p \in Acquirers : PoolGetWakes(p)
    \/ \E p \in Acquirers : PoolGetCancelled(p)
    \/ \E i \in 1..MaxGets, ok \in BOOLEAN : DialEnds(i, ok)
    \/ \E p \in Acquirers : PoolPut(p)
    \/ PoolClose
    \/ GateTryEnter
    \/ GateExit

SpecPool == InitPool /\ [][NextPool]_vars

\* ------------------------------------------------------------ lru.Lru
\* One single-flight LRU cache and the goroutines that call GetWithContext on
\* it, each once.  A load is numbered in the order the loads start; loadFn
\* returns the key it is given, or an error.
Getters == 1..NumGetters
Keys == 1..NumKeys
NoLoad == 0

offLru == <<clusterVars, retryVars, rf, hs, fo, tp, cb, lk, sc, pb>>

\* KeyMarshaller: two keys in a row share one canonical key
KeyMarshaller(key) == (key + 1) \div 2
CanonicalKeys == {KeyMarshaller(k) : k \in Keys}

\* the cache entry of a canonical key, 0 when there is none
entryOf(c) == IF \E i \in 1..Len(lru.entries) : lru.entries[i].key = c
              THEN CHOOSE i \in 1..Len(lru.entries) : lru.entries[i].key = c
              ELSE 0

\* whether a get that finds no entry joins the load in flight for its key
joinsNever(c) == FALSE
joins(c) == lru.inflight[c] # NoLoad

\* the entries with e in the most recently used place, the least recently
\* used one evicted to stay at LruMaxEntries
insertEvictsNewest(entries, e) ==
    LET added == Append(entries, e)
    IN  IF Len(added) > lru.maxEntries THEN SubSeq(added, 1, lru.maxEntries) ELSE added
insert(entries, e) ==
    LET added == Append(entries, e)
    IN  IF Len(added) > lru.maxEntries THEN Tail(added) ELSE added

\* the entries with entry i in the most recently used place
touch(entries, i) ==
    SubSeq(entries, 1, i - 1) \o SubSeq(entries, i + 1, Len(entries)) \o <<entries[i]>>

\* a goroutine calls GetWithContext(ctx, key)
LruGet(p, key) ==
    /\ lru.get[p].pc = "idle"
    /\ lru' = [lru EXCEPT !.get[p] = [@ EXCEPT !.pc = "called", !.key = key],
                          !.late[KeyMarshaller(key)] = @ \/ lru.completed[KeyMarshaller(key)]]
    /\ UNCHANGED offLru

\* under the lock: an entry is returned and becomes the most recently used;
\* else the load in flight is joined; else a load is started
LruLookup(p) ==
    /\ lru.get[p].pc = "called"
    /\ LET c == KeyMarshaller(lru.get[p].key)
           i == entryOf(c)
           f == Len(lru.loads) + 1
       IN  IF i # 0
           THEN lru' = [lru EXCEPT
                    !.get[p] = [@ EXCEPT !.pc = "done", !.value = lru.entries[i].value,
                                         !.err = "nil"],
                    !.entries = touch(@, i)]
           ELSE IF joins(c)
           THEN lru' = [lru EXCEPT !.get[p] = [@ EXCEPT !.pc = "waiting",
                                                        !.load = lru.inflight[c]]]
           ELSE lru' = [lru EXCEPT
                    !.get[p] = [@ EXCEPT !.pc = "loading", !.load = f],
                    !.inflight[c] = f,
                    !.loads = Append(@, [key |-> c, done |-> FALSE, value |-> 0,
                                         err |-> "nil"])]
    /\ UNCHANGED offLru

\* loadFn returns to the goroutine that started the load: the load in flight
\* is deleted, and a value is entered in the cache
LruLoadReturns(p, ok) ==
    /\ lru.get[p].pc = "loading"
    /\ LET f == lru.get[p].load
           c == lru.loads[f].key
           value == IF ok THEN lru.get[p].key ELSE 0
           err == IF ok THEN "nil" ELSE "load error"
       IN  lru' = [lru EXCEPT
               !.get[p] = [@ EXCEPT !.pc = "done", !.value = value, !.err = err],
               !.loads[f] = [@ EXCEPT !.done = TRUE, !.value = value, !.err = err],
               !.inflight[c] = NoLoad,
               !.completed[c] = TRUE,
               !.entries = IF ok THEN insert(@, [key |-> c, value |-> value]) ELSE @]
    /\ UNCHANGED offLru

\* a goroutine that waits on a load sees it done
LruWaitReturns(p) ==
    /\ lru.get[p].pc = "waiting"
    /\ lru.loads[lru.get[p].load].done
    /\ lru' = [lru EXCEPT !.get[p] = [@ EXCEPT !.pc = "done",
                                               !.value = lru.loads[lru.get[p].load].value,
                                               !.err = lru.loads[lru.get[p].load].err]]
    /\ UNCHANGED offLru

\* what the loads are when a goroutine gives up its wait on load f: the
\* load goes on for the others
abandonEndsLoad(loads, f) == [loads EXCEPT ![f] = [@ EXCEPT !.done = TRUE, !.err = "ctx.Err"]]
abandon(loads, f) == loads

\* the context of a goroutine that waits on a load is cancelled
LruWaitCancelled(p) ==
    /\ lru.get[p].pc = "waiting"
    /\ lru' = [lru EXCEPT !.get[p] = [@ EXCEPT !.pc = "done", !.err = "ctx.Err",
                                               !.cancelled = TRUE],
                          !.loads = abandon(@, lru.get[p].load)]
    /\ UNCHANGED offLru

\* the context of the goroutine that started the load is done while loadFn
\* runs: loadFn(ctx, key) has that context, and returns ctx.Err() as the
\* loadFn of TestLruTimeout does; the load completes with this error
LruLoadCancelled(p) ==
    /\ lru.get[p].pc = "loading"
    /\ LET f == lru.get[p].load
           c == lru.loads[f].key
       IN  lru' = [lru EXCEPT
               !.get[p] = [@ EXCEPT !.pc = "done", !.value = 0, !.err = "ctx.Err",
                                    !.cancelled = TRUE],
               !.loads[f] = [@ EXCEPT !.done = TRUE, !.value = 0, !.err = "ctx.Err"],
               !.inflight[c] = NoLoad,
               !.completed[c] = TRUE]
    /\ UNCHANGED offLru

\* an empty cache
InitLru ==
    /\ ClusterOf(0)
    /\ rt = RtIdle /\ rtLog = RtLogIdle
    /\ lru = [entries |-> <<>>, maxEntries |-> LruMaxEntries,
              inflight |-> [c \in CanonicalKeys |-> NoLoad],
              loads |-> <<>>,
              get |-> [p \in Getters |-> [pc |-> "idle", key |-> 0, load |-> NoLoad,
                                          value |-> 0, err |-> "nil", cancelled |-> FALSE]],
              completed |-> [c \in CanonicalKeys |-> FALSE],
              late |-> [c \in CanonicalKeys |-> FALSE]]
    /\ rf = EmptyMap /\ hs = EmptyMap /\ fo = EmptyMap /\ tp = EmptyMap
    /\ cb = EmptyMap /\ lk = EmptyMap /\ sc = EmptyMap /\ pb = EmptyMap

NextLru ==
    \/ \E p \in Getters, key \in Keys : LruGet(p, key)
    \/ \E p \in Getters : LruLookup(p)
    \/ \E p \in Getters, ok \in BOOLEAN : LruLoadReturns(p, ok)
    \/ \E p \in Getters : LruWaitReturns(p)
    \/ \E p \in Getters : LruWaitCancelled(p)
    \/ \E p \in Getters : LruLoadCancelled(p)

SpecLru == InitLru /\ [][NextLru]_vars

\* ------------------------------------------------------------ lru.Lru, one caller
\* One Lru without a KeyMarshaller and one goroutine that calls GetWithContext
\* on it, one call after the other, as TestLruEvict and
\* TestLruEvictBeyondCapacity do.  lru.used is the keys of the calls that
\* returned a value, in the order of the calls; lru.evicted is the key the last
\* call evicted, 0 when it evicted none.
\* GetWithContext(ctx, key) run alone: the entry is returned and becomes the
\* most recently used, or loadFn is called and its value is entered
LruGetAlone(key, ok) ==
    /\ lru.gets < MaxSerialGets
    /\ LET i == entryOf(key)
           e == [key |-> key, value |-> key]
           entries == IF i # 0 THEN touch(lru.entries, i)
                      ELSE IF ok THEN insert(lru.entries, e)
                      ELSE lru.entries
           kept == {entries[k].key : k \in 1..Len(entries)}
           gone == {lru.entries[k].key : k \in 1..Len(lru.entries)} \ kept
       IN  lru' = [lru EXCEPT !.entries = entries,
                              !.gets = @ + 1,
                              !.loadCalls = IF i # 0 THEN @ ELSE @ + 1,
                              !.used = IF i # 0 \/ ok THEN Append(@, key) ELSE @,
                              !.evicted = IF gone = {} THEN 0 ELSE CHOOSE c \in gone : TRUE]
    /\ UNCHANGED offLru

\* an empty cache of one to LruMaxEntries + 1 entries
InitLruAlone ==
    /\ ClusterOf(0)
    /\ rt = RtIdle /\ rtLog = RtLogIdle
    /\ \E n \in 1..(LruMaxEntries + 1) :
          lru = [entries |-> <<>>, maxEntries |-> n, gets |-> 0, loadCalls |-> 0,
                 used |-> <<>>, evicted |-> 0]
    /\ rf = EmptyMap /\ hs = EmptyMap /\ fo = EmptyMap /\ tp = EmptyMap
    /\ cb = EmptyMap /\ lk = EmptyMap /\ sc = EmptyMap /\ pb = EmptyMap

NextLruAlone == \E key \in Keys, ok \in BOOLEAN : LruGetAlone(key, ok)

SpecLruAlone == InitLruAlone /\ [][NextLruAlone]_vars

maxInt64Digits == 18    \* writeStringNumber: len(val) > 18

\* ------------------------------------------------------------ cbor: attribute values
\* An attribute value is a record: its kind t, a string v (a sequence of
\* one-character strings; the only character of a BOOL or NULL is "true" or
\* "false"), the members l of a set or list, and the map m of an M.  What the
\* Writer puts out is kept as a cbor data item: major type, tag or simple
\* value, string v, exponent e of a decimal, and the items it holds (for a map
\* the keys are in k, in the order they were written).
AV(t, v, l, m) == [t |-> t, v |-> v, l |-> l, m |-> m]
Item(major, tag, v, e, items, k) ==
    [major |-> major, tag |-> tag, v |-> v, e |-> e, items |-> items, k |-> k]
SerializationError(msg) == Item("error", msg, <<>>, 0, <<>>, <<>>)

DigitChars == <<"0", "1", "2", "3", "4", "5", "6", "7", "8", "9">>
IsDigits(s) == Len(s) > 0 /\ \A i \in 1..Len(s) : \E d \in 1..10 : DigitChars[d] = s[i]
Unsigned(s) == IF Len(s) > 0 /\ s[1] \in {"+", "-"} THEN Tail(s) ELSE s
Negative(s) == Len(s) > 0 /\ s[1] = "-"

\* the digits of a number without its leading zeros
Magnitude(ds) ==
    IF \A i \in 1..Len(ds) : ds[i] = "0" THEN <<"0">>
    ELSE LET first == CHOOSE i \in 1..Len(ds) :
                          ds[i] # "0" /\ \A j \in 1..(i - 1) : ds[j] = "0"
         IN  SubSeq(ds, first, Len(ds))

\* strconv.FormatInt / big.Int.String of the number written s
IntString(s) ==
    LET mag == Magnitude(Unsigned(s))
    IN  IF Negative(s) /\ mag # <<"0">> THEN <<"-">> \o mag ELSE mag

\* strconv.Itoa and strconv.Atoi of an exponent
RECURSIVE Itoa(_)
Itoa(n) == IF n < 0 THEN <<"-">> \o Itoa(0 - n)
           ELSE IF n < 10 THEN <<DigitChars[n + 1]>>
           ELSE Itoa(n \div 10) \o <<DigitChars[(n % 10) + 1]>>
RECURSIVE Atoi(_)
Atoi(s) == IF Negative(s) THEN 0 - Atoi(Tail(s))
           ELSE IF s = <<>> THEN 0
           ELSE 10 * Atoi(SubSeq(Unsigned(s), 1, Len(Unsigned(s)) - 1))
                    + (CHOOSE i \in 0..9 : DigitChars[i + 1] = s[Len(s)])

\* the place of the first of the characters cs in s, 0 when there is none
IndexAny(s, cs) == IF \E i \in 1..Len(s) : s[i] \in cs
                   THEN CHOOSE i \in 1..Len(s) : s[i] \in cs /\ \A j \in 1..(i - 1) : s[j] \notin cs
                   ELSE 0

\* Decimal.SetString: digits with a fraction, or an integer with an exponent;
\* the unscaled value and the exponent of ten
DecimalOf(val) ==
    LET i == IndexAny(val, {".", "e", "E"})
        head == SubSeq(val, 1, i - 1)
        rest == SubSeq(val, i + 1, Len(val))
    IN  IF val[i] = "."
        THEN [ok |-> IsDigits(Unsigned(head)) /\ IsDigits(rest),
              unscaled |-> IntString(head \o rest), e |-> 0 - Len(rest)]
        ELSE [ok |-> IsDigits(Unsigned(head)) /\ IsDigits(Unsigned(rest)),
              unscaled |-> IntString(head),
              e |-> IF IsDigits(Unsigned(rest)) THEN Atoi(rest) ELSE 0]

\* Decimal.String: the unscaled value, then E and the exponent
DecimalStringPlain(unscaled, e) == unscaled
DecimalString(unscaled, e) == IF e = 0 THEN unscaled ELSE unscaled \o <<"E">> \o Itoa(e)

\* writeStringNumber
writeStringNumber(val) ==
    IF IndexAny(val, {".", "e", "E"}) > 0
    THEN IF DecimalOf(val).ok
         THEN Item("Tag", "Decimal", DecimalOf(val).unscaled, DecimalOf(val).e, <<>>, <<>>)
         ELSE SerializationError("invalid number")
    ELSE IF Len(val) > maxInt64Digits
    THEN Item("Tag", IF Negative(val) /\ IntString(val) # <<"0">> THEN "NegBigInt" ELSE "PosBigInt",
              Magnitude(Unsigned(val)), 0, <<>>, <<>>)
    ELSE IF IsDigits(Unsigned(val))
    THEN Item(IF Negative(val) /\ IntString(val) # <<"0">> THEN "NegInt" ELSE "PosInt", "",
              Magnitude(Unsigned(val)), 0, <<>>, <<>>)
    ELSE SerializationError("invalid number")

\* the first item of a sequence that is an error, or the array of them under
\* its header
Members(major, tag, items, k) ==
    IF \E i \in 1..Len(items) : items[i].major = "error"
    THEN items[CHOOSE i \in 1..Len(items) :
                 items[i].major = "error" /\ \A j \in 1..(i - 1) : items[j].major # "error"]
    ELSE Item(major, tag, <<>>, 0, items, k)

\* the keys of a map in the order the range over it takes them
MapKeys == <<"a", "b">>
KeysInOrder(m, descending) ==
    LET In(key) == key \in DOMAIN m
        up == SelectSeq(MapKeys, In)
    IN  IF descending THEN [i \in 1..Len(up) |-> up[Len(up) + 1 - i]] ELSE up

RECURSIVE EncodeAttributeValue(_, _)
EncodeAttributeValue(value, descending) ==
    CASE value.t = "nil" -> SerializationError("invalid attribute value: nil")
      [] value.t = "S" -> Item("Utf", "", value.v, 0, <<>>, <<>>)
      [] value.t = "N" -> writeStringNumber(value.v)
      [] value.t = "B" -> Item("Bytes", "", value.v, 0, <<>>, <<>>)
      [] value.t = "SS" ->
            IF Len(value.l) = 0 THEN SerializationError("invalid string set: nil or empty")
            ELSE Members("Tag", "tagStringSet",
                         [i \in 1..Len(value.l) |-> Item("Utf", "", value.l[i], 0, <<>>, <<>>)],
                         <<>>)
      [] value.t = "NS" ->
            IF Len(value.l) = 0 THEN SerializationError("invalid number set: nil or empty")
            ELSE Members("Tag", "tagNumberSet",
                         [i \in 1..Len(value.l) |-> writeStringNumber(value.l[i])], <<>>)
      [] value.t = "BS" ->
            IF Len(value.l) = 0 THEN SerializationError("invalid binary set: nil or empty")
            ELSE Members("Tag", "tagBinarySet",
                         [i \in 1..Len(value.l) |-> Item("Bytes", "", value.l[i], 0, <<>>, <<>>)],
                         <<>>)
      [] value.t = "L" ->
            Members("Array", "",
                    [i \in 1..Len(value.l) |-> EncodeAttributeValue(value.l[i], descending)],
                    <<>>)
      [] value.t = "M" ->
            LET ks == KeysInOrder(value.m, descending)
            IN  Members("Map", "",
                        [i \in 1..Len(ks) |-> EncodeAttributeValue(value.m[ks[i]], descending)],
                        ks)
      [] value.t = "BOOL" -> Item("Simple", IF value.v = <<"true">> THEN "True" ELSE "False",
                                  <<>>, 0, <<>>, <<>>)
      [] value.t = "NULL" ->
            IF value.v # <<"true">> THEN SerializationError("invalid null attribute value")
            ELSE Item("Simple", "Nil", <<>>, 0, <<>>, <<>>)

DeserializationError == AV("error", <<>>, <<>>, <<>>)

\* the first value of a sequence that is an error, or the value made of them
Decoded(t, vals) ==
    IF \E i \in 1..Len(vals) : vals[i].t = "error" THEN DeserializationError
    ELSE AV(t, <<>>, vals, <<>>)

RECURSIVE DecodeAttributeValue(_)
DecodeAttributeValue(item) ==
    CASE item.major = "Utf" -> AV("S", item.v, <<>>, <<>>)
      [] item.major = "Bytes" -> AV("B", item.v, <<>>, <<>>)
      [] item.major = "Array" ->
            Decoded("L", [i \in 1..Len(item.items) |-> DecodeAttributeValue(item.items[i])])
      [] item.major = "Map" ->
            LET vals == [i \in 1..Len(item.items) |-> DecodeAttributeValue(item.items[i])]
            IN  IF \E i \in 1..Len(vals) : vals[i].t = "error" THEN DeserializationError
                ELSE AV("M", <<>>, <<>>,
                        [key \in {item.k[i] : i \in 1..Len(item.k)} |->
                            vals[CHOOSE i \in 1..Len(item.k) : item.k[i] = key]])
      [] item.major = "PosInt" -> AV("N", item.v, <<>>, <<>>)
      [] item.major = "NegInt" -> AV("N", <<"-">> \o item.v, <<>>, <<>>)
      [] item.major = "Simple" ->
            CASE item.tag = "False" -> AV("BOOL", <<"false">>, <<>>, <<>>)
              [] item.tag = "True" -> AV("BOOL", <<"true">>, <<>>, <<>>)
              [] item.tag = "Nil" -> AV("NULL", <<"true">>, <<>>, <<>>)
              [] OTHER -> DeserializationError
      [] item.major = "Tag" ->
            CASE item.tag = "PosBigInt" -> AV("N", item.v, <<>>, <<>>)
              [] item.tag = "NegBigInt" -> AV("N", <<"-">> \o item.v, <<>>, <<>>)
              [] item.tag = "Decimal" -> AV("N", DecimalString(item.v, item.e), <<>>, <<>>)
              [] item.tag = "tagStringSet" ->
                    AV("SS", <<>>, [i \in 1..Len(item.items) |-> item.items[i].v], <<>>)
              [] item.tag = "tagNumberSet" ->
                    LET vals == [i \in 1..Len(item.items) |->
                                    DecodeAttributeValue(item.items[i])]
                    IN  IF \E i \in 1..Len(vals) : vals[i].t # "N" THEN DeserializationError
                        ELSE AV("NS", <<>>, [i \in 1..Len(vals) |-> vals[i].v], <<>>)
              [] item.tag = "tagBinarySet" ->
                    AV("BS", <<>>, [i \in 1..Len(item.items) |-> item.items[i].v], <<>>)
              [] OTHER -> DeserializationError
      [] OTHER -> DeserializationError

\* the attribute values given to the codec
NumChars == {"0", "1", "-", "+", ".", "E"}
Zeros(n) == [i \in 1..n |-> "0"]
Numbers ==
    UNION {[1..n -> NumChars] : n \in 1..MaxNumLen}
        \cup {sign \o lead \o Zeros(maxInt64Digits) :
                 sign \in {<<>>, <<"-">>, <<"+">>}, lead \in {<<"1">>, <<"0">>}}
Strings == {<<>>, <<"x">>, <<"x", "y">>}
SeqsUpTo(S, n) == UNION {[1..k -> S] : k \in 0..n}
Scalars ==
    {AV("S", v, <<>>, <<>>) : v \in Strings} \cup {AV("B", v, <<>>, <<>>) : v \in Strings}
        \cup {AV(t, v, <<>>, <<>>) : t \in {"BOOL", "NULL"}, v \in {<<"true">>, <<"false">>}}
Sets ==
    {AV(t, <<>>, l, <<>>) : t \in {"SS", "BS"}, l \in SeqsUpTo(Strings, MaxListLen)}
        \cup {AV("NS", <<>>, l, <<>>) :
                 l \in SeqsUpTo({<<"1">>, <<"-", "1">>, <<"0", "1">>, <<"1", ".", "1">>,
                                  <<"1", "E", "-", "1">>}, MaxListLen)}
Members1 ==
    {AV("S", <<"x">>, <<>>, <<>>), AV("N", <<"1">>, <<>>, <<>>),
     AV("N", <<"1", "E", "-", "1">>, <<>>, <<>>), AV("N", <<"1", ".", "1">>, <<>>, <<>>),
     AV("BOOL", <<"false">>, <<>>, <<>>), AV("NULL", <<"true">>, <<>>, <<>>),
     AV("SS", <<>>, <<>>, <<>>), AV("NS", <<>>, <<<<"1">>>>, <<>>),
     AV("L", <<>>, <<AV("B", <<"x">>, <<>>, <<>>)>>, <<>>)}
Lists == {AV("L", <<>>, l, <<>>) : l \in SeqsUpTo(Members1, MaxListLen)}
Maps == {AV("M", <<>>, <<>>, m) :
            m \in UNION {[ks -> Members1] : ks \in SUBSET {MapKeys[i] : i \in 1..Len(MapKeys)}}}
AttributeValues ==
    {AV("N", v, <<>>, <<>>) : v \in Numbers} \cup Scalars \cup Sets \cup Lists \cup Maps

offCodec == <<clusterVars, retryVars, rf, hs, fo, tp, lru, lk, sc, pb>>

\* EncodeAttributeValue(value, writer) and Flush
CodecEncode(descending) ==
    /\ cb.pc = "value"
    /\ LET item == EncodeAttributeValue(cb.value, descending)
       IN  cb' = [cb EXCEPT !.pc = IF item.major = "error" THEN "failed" ELSE "encoded",
                            !.item = item]
    /\ UNCHANGED offCodec

\* DecodeAttributeValue(reader) on what was written
CodecDecode ==
    /\ cb.pc = "encoded"
    /\ cb' = [cb EXCEPT !.pc = "decoded", !.out = DecodeAttributeValue(cb.item)]
    /\ UNCHANGED offCodec

InitCodec ==
    /\ ClusterOf(0)
    /\ rt = RtIdle /\ rtLog = RtLogIdle
    /\ \E value \in AttributeValues :
          cb = [pc |-> "value", value |-> value,
                item |-> Item("none", "", <<>>, 0, <<>>, <<>>),
                out |-> AV("none", <<>>, <<>>, <<>>)]
    /\ rf = EmptyMap /\ hs = EmptyMap /\ fo = EmptyMap /\ tp = EmptyMap /\ lru = EmptyMap
    /\ lk = EmptyMap /\ sc = EmptyMap /\ pb = EmptyMap

NextCodec ==
    \/ \E descending \in BOOLEAN : CodecEncode(descending)
    \/ CodecDecode

SpecCodec == InitCodec /\ [][NextCodec]_vars

\* ------------------------------------------------------------ cluster.lock, taskExecutor
\* The goroutines that meet at the lock of one cluster: a request in
\* cluster.client, a health status in cluster.removeRoute, the two tasks that
\* cluster.start schedules (safeRefresh and reapIdleConnections), and a caller
\* of Close.  The lock is a sync.RWMutex: RLock waits while a writer holds the
\* lock or is queued for it, Lock waits for the readers and the writer to leave.
Tasks == {"safeRefresh", "reapIdleConnections"}
ReadCallers == {"client", "reapIdleConnections"}
WriteCallers == {"removeRoute", "safeRefresh", "Close"}
Goroutines == ReadCallers \cup WriteCallers

offLock == <<clusterVars, retryVars, rf, hs, fo, tp, lru, cb, sc, pb>>

\* where a goroutine is when it is in no call
Home(g) == IF g \in Tasks THEN "select" ELSE "idle"

canRLock == lk.writer = "none" /\ lk.queued = {}
canLock == lk.writer = "none" /\ \A g \in Goroutines : lk.held[g] = 0

\* what a call on c.routeManager does: Close has set it nil
useRouteManager(pc) == IF lk.routeManagerNil THEN "panic" ELSE pc

\* a request, or the health status of a node client, makes its call
Call(g) ==
    /\ g \notin Tasks /\ g # "Close"
    /\ lk.pc[g] = "idle"
    /\ lk' = [lk EXCEPT !.pc[g] = IF g \in ReadCallers THEN "RLock" ELSE "Lock",
                        !.queued = IF g \in WriteCallers THEN @ \cup {g} ELSE @]
    /\ UNCHANGED offLock

\* taskExecutor.start: the ticker of a task fires and its action starts; the
\* select takes this case also when the close channel is ready as well
TaskTick(g) ==
    /\ g \in Tasks
    /\ lk.pc[g] = "select"
    /\ lk' = [lk EXCEPT !.pc[g] = IF g \in ReadCallers THEN "RLock" ELSE "Lock",
                        !.queued = IF g \in WriteCallers THEN @ \cup {g} ELSE @,
                        !.startedAfterStop = @ \/ lk.stopped]
    /\ UNCHANGED offLock

\* taskExecutor.start: the select of a task takes the close channel
TaskExit(g) ==
    /\ g \in Tasks
    /\ lk.pc[g] = "select" /\ lk.stopped
    /\ lk' = [lk EXCEPT !.pc[g] = "exited"]
    /\ UNCHANGED offLock

\* c.lock.RLock() returns
RLock(g) ==
    /\ lk.pc[g] = "RLock"
    /\ canRLock
    /\ lk' = [lk EXCEPT !.pc[g] = "reading", !.held[g] = @ + 1]
    /\ UNCHANGED offLock

\* cluster.client and cluster.getAllRoutes under the read lock: the call on
\* the route manager, and for a client call that finds no route the start of
\* lastRefreshError
Read(g, found) ==
    /\ lk.pc[g] = "reading"
    /\ lk' = IF useRouteManager("ok") = "panic"
             THEN [lk EXCEPT !.pc[g] = "panic", !.held[g] = 0]
             ELSE IF g = "client" /\ ~found
             THEN [lk EXCEPT !.pc[g] = "lastRefreshError"]
             ELSE [lk EXCEPT !.pc[g] = Home(g), !.held[g] = 0]
    /\ UNCHANGED offLock

\* lastRefreshError inside cluster.client: RLock again, then both unlocks
LastRefreshError(g) ==
    /\ lk.pc[g] = "lastRefreshError"
    /\ canRLock
    /\ lk' = [lk EXCEPT !.pc[g] = Home(g), !.held[g] = 0]
    /\ UNCHANGED offLock

\* c.lock.Lock() returns
Lock(g) ==
    /\ lk.pc[g] = "Lock"
    /\ canLock
    /\ lk' = [lk EXCEPT !.pc[g] = "writing", !.writer = g, !.queued = @ \ {g}]
    /\ UNCHANGED offLock

\* what is done under the write lock, and the unlock: removeRoute calls the
\* route manager, safeRefresh sets lastRefreshErr, Close closes the node
\* clients and clears the route manager
Write(g) ==
    /\ lk.pc[g] = "writing"
    /\ lk' = IF g = "Close"
             THEN [lk EXCEPT !.pc[g] = "closed", !.writer = "none", !.closed = TRUE,
                             !.routeManagerNil = TRUE,
                             !.running = {t \in Tasks : lk.pc[t] \notin {"select", "exited"}}]
             ELSE IF g = "removeRoute"
             THEN [lk EXCEPT !.pc[g] = useRouteManager(Home(g)), !.writer = "none"]
             ELSE [lk EXCEPT !.pc[g] = Home(g), !.writer = "none"]
    /\ UNCHANGED offLock

\* cluster.Close up to c.lock.Lock(): executor.stopAll() closes the channel
StopAll ==
    /\ lk.pc["Close"] = "idle"
    /\ lk' = [lk EXCEPT !.pc["Close"] = "Lock", !.queued = @ \cup {"Close"},
                        !.stopped = TRUE]
    /\ UNCHANGED offLock

\* a cluster that cluster.start has started
InitLock ==
    /\ ClusterOf(0)
    /\ rt = RtIdle /\ rtLog = RtLogIdle
    /\ lk = [pc |-> [g \in Goroutines |-> Home(g)],
             held |-> [g \in Goroutines |-> 0],
             writer |-> "none", queued |-> {},
             closed |-> FALSE, routeManagerNil |-> FALSE,
             stopped |-> FALSE, startedAfterStop |-> FALSE, running |-> {}]
    /\ rf = EmptyMap /\ hs = EmptyMap /\ fo = EmptyMap /\ tp = EmptyMap /\ lru = EmptyMap
    /\ cb = EmptyMap /\ sc = EmptyMap /\ pb = EmptyMap

NextLock ==
    \/ \E g \in Goroutines : Call(g)
    \/ \E g \in Goroutines : TaskTick(g)
    \/ \E g \in Goroutines : TaskExit(g)
    \/ \E g \in Goroutines : RLock(g)
    \/ \E g \in Goroutines, found \in BOOLEAN : Read(g, found)
    \/ \E g \in Goroutines : LastRefreshError(g)
    \/ \E g \in Goroutines : Lock(g)
    \/ \E g \in Goroutines : Write(g)
    \/ StopAll

SpecLock == InitLock /\ [][NextLock]_vars

\* ------------------------------------------------------------ SingleDaxClient
\* One caller of executeWithRetries on one node client.  The pool hands out
\* tubes with their cached auth identity and authExpiryUnix; the clock is
\* time.Now().Unix(), the credentials provider may change the access key.
TubeIds == 1..NumTubes
AccessKeyIDs == 1..NumAccessKeys
NoTube == 0

offSingle == <<clusterVars, retryVars, rf, hs, fo, tp, lru, cb, lk, pb>>

\* a slot of the pool with no connection: what a dial starts from
FreshTube == [state |-> "none", authID |-> 0, authExpiryUnix |-> 0]

\* ctx.Err()
ctxErr(ctx) ==
    IF ctx = "canceled" THEN OtherError("context.Canceled", 0)
    ELSE IF ctx = "expired" THEN OtherError("context.DeadlineExceeded", 0)
    ELSE NoError

\* the failures the server answers with: an auth failure, another
\* daxRequestFailure, a transaction cancelled failure
ServerFailures ==
    {RequestFailure(<<4, 23, 31, 33>>, 0), RequestFailure(<<4, 0, 0>>, 0),
     OtherError("daxTransactionCanceledFailure", 0)}

\* daxRequestFailure.authError()
authError(err) == IsPrefix(<<4, 23, 31>>, err.codes)

\* translateError(err) at the end of the loop
translateError(err) ==
    IF err.type \in {"context.Canceled", "context.DeadlineExceeded"}
    THEN [type |-> "CanceledError", cause |-> err.type]
    ELSE [type |-> "translated", cause |-> err.type]

\* client.pool.put(t)
putTube(s) ==
    [s EXCEPT !.tube[s.t].state = "idle", !.idle = <<s.t>> \o @,
              !.puts = @ + 1, !.t = NoTube]

\* client.pool.closeTube(t)
closeTube(s) ==
    [s EXCEPT !.tube[s.t] = FreshTube, !.closes = @ + 1, !.t = NoTube,
              !.lastAuth[s.t] = [key |-> 0, time |-> 0],
              !.authFailed[s.t] = FALSE]

\* recycleTube: d, ok := err.(*daxRequestFailure); recycle = ok
recyclesNever(err) == FALSE
recycles(err) == err.type = "daxRequestFailure"

\* recycleTube: the expiry a recycled tube is stamped with
expiryKept(err, old, now) == old
expiryOf(err, old, now) == IF authError(err) THEN now ELSE old

\* recycleTube(t, err) for err # nil
recycleTube(s, err) ==
    IF recycles(err)
    THEN putTube([s EXCEPT !.tube[s.t].authExpiryUnix = expiryOf(err, @, s.now),
                           !.authFailed[s.t] = authError(err)])
    ELSE closeTube(s)

\* setDeadline failed: if err == ctx.Err() the tube is still usable
stillUsable(err, ctx) == err = ctxErr(ctx)

\* auth: t.CompareAndSwapAuthID(creds.AccessKeyID) || t.AuthExpiryUnix() <= now.Unix()
authAlways(t, key, now) == TRUE
needsAuth(t, key, now) == t.authID # key \/ t.authExpiryUnix <= now

\* executeWithRetries after executeWithContext has returned err
afterAttempt(s, err, outcome) ==
    LET r == [s EXCEPT !.outcome = outcome, !.err = err] IN
    IF err = NoError
    THEN [r EXCEPT !.pc = "idle", !.result = [type |-> "nil", cause |-> "nil"]]
    ELSE IF err.type = "context.Canceled"
    THEN [r EXCEPT !.pc = "idle",
                   !.result = [type |-> "CanceledError", cause |-> err.type]]
    ELSE IF r.i # r.attempts
    THEN [r EXCEPT !.pc = "sleep"]
    ELSE [r EXCEPT !.pc = "idle", !.i = @ + 1, !.result = translateError(err)]

\* executeWithRetries(ctx, op, o, encoder, decoder) with o.RetryMaxAttempts = m
SingleExecute(m) ==
    /\ sc.pc = "idle"
    /\ sc' = [sc EXCEPT !.pc = "attempt", !.i = 0, !.attempts = m, !.ctx = "live",
                        !.outcome = "none", !.err = NoError,
                        !.result = [type |-> "none", cause |-> "none"],
                        !.slept = 0, !.puts = 0, !.closes = 0]
    /\ UNCHANGED offSingle

\* executeWithContext up to the deadline: getWithContext hands out the idle
\* tube on top or dials, setDeadline fails with ctx.Err() when the context is
\* done or with an error of the connection
SingleAcquire(dialOk, deadlineOk) ==
    /\ sc.pc = "attempt"
    /\ LET free == {t \in TubeIds : sc.tube[t].state = "none"}
           got == IF sc.idle # <<>> THEN Head(sc.idle)
                  ELSE IF dialOk /\ sc.ctx = "live" /\ free # {}
                  THEN CHOOSE t \in free : \A u \in free : t <= u
                  ELSE NoTube
           s0 == [sc EXCEPT !.puts = 0, !.closes = 0, !.wroteAuth = FALSE]
           s1 == [s0 EXCEPT !.t = got, !.tube[got].state = "held",
                            !.idle = IF sc.idle # <<>> THEN Tail(@) ELSE @]
           err == IF sc.ctx # "live" THEN ctxErr(sc.ctx) ELSE OtherError("io", 0)
           why == IF sc.ctx # "live" THEN "deadline:ctx" ELSE "deadline"
       IN sc' = IF got = NoTube
                THEN afterAttempt(s0, err, "get")
                ELSE IF sc.ctx # "live" \/ ~deadlineOk
                THEN IF stillUsable(err, sc.ctx)
                     THEN afterAttempt(putTube(s1), err, why)
                     ELSE afterAttempt(closeTube(s1), err, why)
                ELSE [s1 EXCEPT !.pc = "auth"]
    /\ UNCHANGED offSingle

\* client.auth(ctx, t) and what executeWithContext does with its error
SingleAuth(credsOk, writeOk) ==
    /\ sc.pc = "auth"
    /\ LET t == sc.t
           key == sc.creds
           need == needsAuth(sc.tube[t], key, sc.now)
           swapped == [sc EXCEPT !.tube[t].authID = key]
       IN sc' = IF ~credsOk
                THEN afterAttempt(closeTube(sc), OtherError("credentials", 0), "auth")
                ELSE IF need /\ ~writeOk
                THEN afterAttempt(closeTube(swapped), OtherError("io", 0), "auth")
                ELSE IF need
                THEN [swapped EXCEPT !.pc = "send", !.wroteAuth = TRUE,
                                     !.authKey = key, !.authNow = sc.now,
                                     !.wasFailed = sc.authFailed[t],
                                     !.authFailed[t] = FALSE,
                                     !.tube[t].authExpiryUnix = sc.now + tubeAuthWindowSecs,
                                     !.lastAuth[t] = [key |-> key, time |-> sc.now]]
                ELSE [sc EXCEPT !.pc = "send", !.authKey = key, !.authNow = sc.now,
                                !.wasFailed = sc.authFailed[t]]
    /\ UNCHANGED offSingle

\* encoder(writer) and writer.Flush()
SingleSend(step) ==
    /\ sc.pc = "send"
    /\ sc' = IF step = "ok" THEN [sc EXCEPT !.pc = "receive"]
             ELSE afterAttempt(closeTube(sc), OtherError(step, 0), step)
    /\ UNCHANGED offSingle

\* decodeError(reader), recycleTube, decoder(reader)
SingleReceive(step, ex) ==
    /\ sc.pc = "receive"
    /\ sc' = IF step = "decodeError"
             THEN afterAttempt(closeTube(sc), OtherError("io", 0), step)
             ELSE IF step = "failure"
             THEN afterAttempt(recycleTube(sc, ex), ex, ex.type)
             ELSE IF step = "decoder"
             THEN afterAttempt(closeTube(sc), OtherError("io", 0), step)
             ELSE afterAttempt(putTube(sc), NoError, "ok")
    /\ UNCHANGED offSingle

\* SleepWithContext(ctx, op, delay) between two attempts
SingleSleep ==
    /\ sc.pc = "sleep"
    /\ sc' = IF SleepWithContext(sc.ctx) # NoError
             THEN [sc EXCEPT !.pc = "idle", !.slept = @ + 1,
                             !.result = [type |-> "OperationError",
                                         cause |-> SleepWithContext(sc.ctx).type]]
             ELSE [sc EXCEPT !.pc = "attempt", !.slept = @ + 1, !.i = @ + 1]
    /\ UNCHANGED offSingle

\* the caller cancels the context, or its deadline passes
SingleCtxDone(how) ==
    /\ sc.pc # "idle" /\ sc.ctx = "live"
    /\ sc' = [sc EXCEPT !.ctx = how]
    /\ UNCHANGED offSingle

\* a second passes
SingleTick ==
    /\ sc.now < MaxNow
    /\ sc' = [sc EXCEPT !.now = @ + 1]
    /\ UNCHANGED offSingle

\* credentials.Retrieve starts to return another access key
SingleRotate(key) ==
    /\ key # sc.creds
    /\ sc' = [sc EXCEPT !.creds = key]
    /\ UNCHANGED offSingle

InitSingle ==
    /\ ClusterOf(0)
    /\ rt = RtIdle /\ rtLog = RtLogIdle
    /\ sc = [pc |-> "idle", i |-> 0, attempts |-> 0, ctx |-> "live",
             t |-> NoTube, tube |-> [t \in TubeIds |-> FreshTube], idle |-> <<>>,
             now |-> 1, creds |-> 1,
             outcome |-> "none", err |-> NoError,
             result |-> [type |-> "none", cause |-> "none"],
             slept |-> 0, puts |-> 0, closes |-> 0,
             wroteAuth |-> FALSE, authKey |-> 0, authNow |-> 0, wasFailed |-> FALSE,
             lastAuth |-> [t \in TubeIds |-> [key |-> 0, time |-> 0]],
             authFailed |-> [t \in TubeIds |-> FALSE]]
    /\ rf = EmptyMap /\ hs = EmptyMap /\ fo = EmptyMap /\ tp = EmptyMap /\ lru = EmptyMap
    /\ cb = EmptyMap /\ lk = EmptyMap /\ pb = EmptyMap

NextSingle ==
    \/ \E m \in 0..MaxNodeAttempts : SingleExecute(m)
    \/ \E dialOk \in BOOLEAN, deadlineOk \in BOOLEAN : SingleAcquire(dialOk, deadlineOk)
    \/ \E credsOk \in BOOLEAN, writeOk \in BOOLEAN : SingleAuth(credsOk, writeOk)
    \/ \E step \in {"ok", "encoder", "flush"} : SingleSend(step)
    \/ \E step \in {"ok", "decodeError", "failure", "decoder"}, ex \in ServerFailures :
           SingleReceive(step, ex)
    \/ SingleSleep
    \/ \E how \in {"canceled", "expired"} : SingleCtxDone(how)
    \/ SingleTick
    \/ \E key \in AccessKeyIDs : SingleRotate(key)

SpecSingle == InitSingle /\ [][NextSingle]_vars

\* ------------------------------------------------------------ startHealthChecks
\* The health check tasks of the node clients of one cluster.  The action of
\* a task calls client.endpoints and, when it fails, cc.onHealthCheckFailed
\* with the host the client was built for; the roster may change while the
\* call is in flight.  pb.builtFor says which host a client was built for,
\* pb.reporter and pb.replaced say for the last rebuild whose task asked for it
\* and which client it took out of active.
offProbe == <<isEnabled, closed, lastRefreshErr, sinceLastUpdate, retryVars,
              rf, hs, fo, tp, lru, cb, lk, sc>>

\* the hosts of the clients built in this step, added to builtFor
BuiltFor(old) ==
    [c \in ClientIds |->
        IF nextClient <= c /\ c < nextClient'
        THEN CHOOSE hp \in DOMAIN active' : active'[hp].client = c
        ELSE old[c]]

\* refreshNow applies a changed roster
ProbeUpdate(cfg) ==
    /\ ~closed
    /\ hasChanged(cfg)
    /\ update(cfg, 0)
    /\ pb' = [pb EXCEPT !.builtFor = BuiltFor(pb.builtFor)]
    /\ UNCHANGED offProbe

\* the ticker of the task of client c fires before c is closed:
\* client.endpoints(ctx, opts) is under way
ProbeStarts(c) ==
    /\ c < nextClient
    /\ closeCalls[c] = 0
    /\ c \notin pb.inflight
    /\ pb' = [pb EXCEPT !.inflight = @ \cup {c}]
    /\ UNCHANGED <<clusterVars, offProbe>>

\* err == nil: healthStatus.onHealthCheckSuccess, nothing for the cluster
ProbeSucceeds(c) ==
    /\ c \in pb.inflight
    /\ pb' = [pb EXCEPT !.inflight = @ \ {c}]
    /\ UNCHANGED <<clusterVars, offProbe>>

\* err != nil: cc.onHealthCheckFailed(host)
ProbeFails(c, buildOk) ==
    /\ c \in pb.inflight
    /\ LET host == pb.builtFor[c] IN
       /\ onHealthCheckFailed(host, buildOk)
       /\ pb' = [pb EXCEPT !.inflight = @ \ {c},
                           !.builtFor = BuiltFor(pb.builtFor),
                           !.reporter = c,
                           !.replaced = IF host \in DOMAIN active /\ buildOk
                                        THEN active[host].client ELSE NoClient]
    /\ UNCHANGED <<retryVars, rf, hs, fo, tp, lru, cb, lk, sc>>

\* a cluster of n nodes, each with its health check task
InitProbe ==
    /\ \E n \in 1..NumHostPorts : ClusterOf(n)
    /\ rt = RtIdle /\ rtLog = RtLogIdle
    /\ pb = [builtFor |-> [c \in ClientIds |-> IF c < nextClient THEN c ELSE 0],
             inflight |-> {}, reporter |-> NoClient, replaced |-> NoClient]
    /\ rf = EmptyMap /\ hs = EmptyMap /\ fo = EmptyMap /\ tp = EmptyMap /\ lru = EmptyMap
    /\ cb = EmptyMap /\ lk = EmptyMap /\ sc = EmptyMap

NextProbe ==
    \/ \E cfg \in Rosters : ProbeUpdate(cfg)
    \/ \E c \in ClientIds : ProbeStarts(c)
    \/ \E c \in ClientIds : ProbeSucceeds(c)
    \/ \E c \in ClientIds, buildOk \in BOOLEAN : ProbeFails(c, buildOk)

SpecProbe == InitProbe /\ [][NextProbe]_vars

\* ------------------------------------------------------------ claims: retry
Calls == rtLog.calls
FailedRetryably(k) == Calls[k].ret # NoError /\ isRetryable(Calls[k].ret)

\* C1: with RetryMaxAttempts = m the action is called at most m + 1 times,
\* every call is handed RetryMaxAttempts = 0, and when the calls before call k
\* fail retryably and call k succeeds, call k is the last one and retry
\* returns nil.
C1_AtMostAttemptsThenSuccess ==
    /\ Len(Calls) <= rt.attempts + 1
    /\ \A k \in DOMAIN Calls : Calls[k].retryMaxAttempts = 0
    /\ \A k \in DOMAIN Calls :
          (Calls[k].ret = NoError /\ \A j \in 1..(k - 1) : FailedRetryably(j))
             => /\ k = Len(Calls)
                /\ k <= rt.attempts + 1
                /\ rt.pc = "done"
                /\ rt.result = NoError

\* a request of MaxAttempts retries that succeeded on its last attempt
C1_Witness ==
    /\ rt.pc = "done"
    /\ rt.attempts = MaxAttempts
    /\ Len(Calls) = rt.attempts + 1
    /\ Calls[Len(Calls)].ret = NoError
    /\ rt.result = NoError

\* C2: when all m + 1 attempts fail retryably, the action was called exactly
\* m + 1 times and retry has returned the error of the last attempt, changed
\* by nothing but the taxonomy translation.
C2_ExhaustedReturnsLastError ==
    (Len(Calls) = rt.attempts + 1 /\ \A k \in DOMAIN Calls : FailedRetryably(k))
       => /\ rt.pc = "done"
          /\ rt.result = convertDaxError(Calls[rt.attempts + 1].ret)
          /\ rt.result.n = rt.attempts + 1

\* a request whose MaxAttempts + 1 attempts all failed retryably, with
\* different errors on the last two
C2_Witness ==
    /\ rt.pc = "done"
    /\ rt.attempts = MaxAttempts
    /\ Len(Calls) = rt.attempts + 1
    /\ \A k \in DOMAIN Calls : FailedRetryably(k)
    /\ Calls[rt.attempts].ret.codes # Calls[rt.attempts + 1].ret.codes
    /\ rt.result.type = "ThrottlingException"

\* the errors the cluster client does not retry: parameter/validation errors,
\* raw I/O and encode errors, server errors whose code sequence starts with 0
NotRetried(err) ==
    \/ err.type \in {"validation", "io", "encode"}
    \/ err.type = "daxRequestFailure" /\ err.codes[1] = 0

\* C3: an attempt that fails with an error that is not retryable is the last
\* one: retry has returned that error, no later call was made and no backoff
\* sleep followed it.
C3_NonRetryableReturnsAtOnce ==
    \A k \in DOMAIN Calls :
       NotRetried(Calls[k].ret)
          => /\ k = Len(Calls)
             /\ rt.pc = "done"
             /\ rt.result = retryResult(Calls[k].ret)
             /\ rt.result.n = k
             /\ rtLog.sleeps = Calls[k].sleeps

\* a request that slept after a retryable failure and then met a server error
\* with code sequence {0}
C3_Witness ==
    /\ rt.pc = "done"
    /\ Len(Calls) >= 2
    /\ rtLog.sleeps >= 1
    /\ Calls[Len(Calls)].ret.type = "daxRequestFailure"
    /\ Calls[Len(Calls)].ret.codes = <<0>>

\* C4: when the context is cancelled while retry sleeps between two attempts,
\* the action is not called again and retry returns a canceled error.
C4_CancelDuringSleep ==
    rtLog.doneAsleep = "canceled"
       => /\ rt.pc \in {"sleep", "done"}
          /\ Len(Calls) = rtLog.callsThen
          /\ rt.pc = "done" => rt.result.type = "canceled"

\* a request cancelled in its sleep that has returned
C4_Witness ==
    /\ rtLog.doneAsleep = "canceled"
    /\ rt.pc = "done"
    /\ rtLog.endedAsleep
    /\ Len(Calls) <= rt.attempts

\* C11: while the route list of an open cluster is empty, getRoute returns no
\* route for any prev, so cluster.client returns the 'no routes found' error:
\* retry never calls the action and ends with that error.
C11_NoRoutesNoCall ==
    (~closed /\ routes = {})
       => /\ \A prev \in {NoClient} \cup ClientIds : getRoute(routes, prev) = {NoClient}
          /\ Len(Calls) = 0
          /\ rt.client = NoClient
          /\ rt.pc = "done" => /\ rt.result = OtherError("OperationError", 0)
                               /\ rt.err = rt.result

\* a request of MaxAttempts retries that ended on a cluster without routes
C11_Witness ==
    /\ ~closed
    /\ routes = {}
    /\ rt.pc = "done"
    /\ rt.attempts = MaxAttempts
    /\ rt.result.type = "OperationError"
    /\ Len(Calls) = 0

\* C12: with two routes or more, getRoute(prev) returns a route of the list
\* other than prev, for every prev; every attempt of a retry loop runs on a
\* route of the list and no two consecutive attempts run on the same one.
C12_NextRouteDiffers ==
    Cardinality(routes) >= 2
       => /\ \A prev \in {NoClient} \cup ClientIds :
                \A r \in getRoute(routes, prev) : r \in routes /\ r # prev
          /\ \A k \in DOMAIN Calls : Calls[k].client \in routes
          /\ \A k \in 1..(Len(Calls) - 1) : Calls[k + 1].client # Calls[k].client

\* a request on two routes whose attempts went back and forth between them
C12_Witness ==
    /\ Cardinality(routes) = 2
    /\ rt.pc = "done"
    /\ Len(Calls) >= 3
    /\ Calls[1].client # Calls[2].client
    /\ Calls[3].client = Calls[1].client

\* ------------------------------------------------------------ claims: refresh
\* the callers whose refreshNow is in progress
Pulling == {p \in Callers : rf.pc[p] = "refreshNow"}

\* C13: a caller of refresh pulls only when it was forced or found more than
\* the threshold passed since lastUpdateNs, and at no time is more than one
\* pull in progress.
C13_AtMostOnePull ==
    /\ \A p \in Pulling : rf.force[p] \/ rf.now[p] - rf.last[p] > ClusterUpdateThreshold
    /\ Cardinality(Pulling) <= 1

\* ------------------------------------------------------------ claims: health status
\* C14: removeRoute is called exactly when the fifth I/O error in a row is
\* reported for a healthy node: a healthy node has fewer than five errors
\* counted, and each turn from healthy to unhealthy comes with one removeRoute
\* call, so that the calls number one more than the addRoute calls while the
\* node is unhealthy and as many while it is healthy.
C14_RemoveRouteOnFifthError ==
    /\ hs.isHealthy => hs.curReadTimeoutCount < timeoutErrorThreshold
    /\ hs.removeRouteCalls = hs.addRouteCalls + (IF hs.isHealthy THEN 0 ELSE 1)

\* C23: curReadTimeoutCount is never incremented while isHealthy is false, and
\* so never exceeds timeoutErrorThreshold.
C23_NoIncrementWhileUnhealthy ==
    /\ [](hs.curReadTimeoutCount <= timeoutErrorThreshold)
    /\ [][hs'.curReadTimeoutCount > hs.curReadTimeoutCount => hs.isHealthy]_vars

\* ------------------------------------------------------------ claims: route manager
\* a step of removeRoute on an enabled manager
RemoveStep == isEnabled /\ \E c \in ClientIds : RemoveRouteAt(c)

\* a step of removeRoute that fails open
FailOpenStep == RemoveStep /\ fo'.failOpenEvents = fo.failOpenEvents + 1

\* the manager disabled by its fail-open rule is enabled again when
\* disableDuration has passed since it disabled itself, not before and not
\* later, and the route list is then the client values of active
ReenablesAfterDisableDuration ==
    /\ [](~isEnabled /\ fo.timer # 0
             => fo.clock <= fo.failOpenTimeList[3] + DisableDuration)
    /\ [][(~isEnabled /\ fo.timer # 0 /\ isEnabled')
             => /\ fo.clock = fo.failOpenTimeList[3] + DisableDuration
                /\ routes' = ClientsOf(active')]_vars

\* removals spread over more than the window do not disable the manager
SpreadRemovalsKeepEnabled ==
    [][(RemoveStep /\ Len(fo'.removeCalls) = 3
           /\ fo'.removeCalls[3] - fo'.removeCalls[1] > FailOpenWindow) => isEnabled']_vars

\* C15, as stated: after three consecutive removeRoute calls within the
\* window the manager is disabled; ...
C15_ThreeRemovalsDisable ==
    /\ []((Len(fo.removeCalls) = 3 /\ fo.removeCalls[3] - fo.removeCalls[1] <= FailOpenWindow)
             => ~isEnabled)
    /\ ReenablesAfterDisableDuration
    /\ SpreadRemovalsKeepEnabled

\* C15, amended: the manager disables itself on the removeRoute call that
\* fails open (it finds two routes or fewer listed) for the third time in a
\* row within the window, and on no other call; after disableDuration it is
\* enabled again and the route list is the client values of active; removals
\* spread over more than the window do not disable it.
C15_ThreeFailOpensDisable ==
    /\ [][RemoveStep
             => (~isEnabled' <=> /\ FailOpenStep
                                 /\ fo.failOpenEvents >= 2
                                 /\ Len(fo.failOpenTimeList) >= 2
                                 /\ fo.clock - fo.failOpenTimeList[Len(fo.failOpenTimeList) - 1]
                                       <= FailOpenWindow)]_vars
    /\ ReenablesAfterDisableDuration
    /\ SpreadRemovalsKeepEnabled

\* a manager of three routes that disabled itself and is enabled again
C15_Witness ==
    /\ fo.timerFired
    /\ isEnabled
    /\ fo.failOpenEvents = 3
    /\ fo.routesRemoved = 3
    /\ fo.clock = fo.failOpenTimeList[3] + DisableDuration
    /\ Cardinality(routes) = 3
    /\ routes = ClientsOf(active)

\* the counters of the route manager
RouteCounters == <<fo.routesAdded, fo.routesRemoved, fo.failOpenEvents>>

\* C16: a call of addRoute or removeRoute on a disabled manager leaves the
\* route list and every counter as they were, whatever the route.
C16_DisabledIsNoOp ==
    [][\A c \in ClientIds :
         (~isEnabled /\ (AddRoute(c) \/ RemoveRouteAt(c)))
            => /\ routes' = routes
               /\ RouteCounters' = RouteCounters
               /\ isEnabled' = isEnabled
               /\ fo'.failOpenTimeList = fo.failOpenTimeList]_vars

\* a manager that disabled itself, asked since to add or remove a route
C16_Witness ==
    /\ ~isEnabled
    /\ fo.timer # 0
    /\ fo.ignored
    /\ routes # {}
    /\ routes # ClientIds

\* ------------------------------------------------------------ claims: tube pool
\* a step that takes a tube from the idle stack into the hands of p
TakesIdle(p) ==
    /\ tp.idle # <<>>
    /\ tp.acq[p].pc # "holding" /\ tp'.acq[p].pc = "holding"
    /\ Len(tp'.idle) < Len(tp.idle)

\* the tube taken is the one put last of those idle, the others stay
LifoStep == \A p \in Acquirers :
    TakesIdle(p) => /\ tp'.acq[p].tube = tp.idle[Len(tp.idle)]
                    /\ tp'.idle = SubSeq(tp.idle, 1, Len(tp.idle) - 1)

\* a dial starts only when no tube is idle
DialsWhenNoneIdle == Len(tp'.dialing) > Len(tp.dialing) => tp.idle = <<>>

\* get and put repeated by one goroutine, from the first tube on: one tube
\* has been dialed and no dial is on
SerialDialsOne ==
    tp.serial /\ tp.gets >= 1 /\ tp.acq[1].pc # "waiting"
        => tp.created = 1 /\ tp.dialing = <<>>

\* C17: a get returns the idle tube that was put last, a dial starts only
\* when no tube is idle, and get followed by put repeated n times dials
\* exactly one tube.
C17_LifoOneDial == [][LifoStep /\ DialsWhenNoneIdle]_vars /\ []SerialDialsOne

\* get and put were repeated MaxGets times and one tube was dialed
C17_Witness ==
    /\ tp # EmptyMap
    /\ tp.serial /\ tp.gets = MaxGets /\ tp.acq[1].pc = "out"
    /\ tp.created = 1 /\ tp.idle = <<1>>

\* the dials in progress that hold a permit of the gate
PermitDials == Cardinality({i \in 1..Len(tp.dialing) : tp.dialing[i].permit})

\* a gate gives a permit only to a tryEnter that finds one free
PermitByTryEnter ==
    /\ tp'.permits > tp.permits => tryEnter(tp.permits) /\ tp'.permits = tp.permits + 1
    /\ tp'.gate > tp.gate => tryEnter(tp.gate) /\ tp'.gate = tp.gate + 1

\* the permits taken stay between none and all of them
GateWithinSize == tp.permits \in 0..GateSize /\ tp.gate \in 0..GateSize

\* C18 as stated: at most GateSize dials are in progress at any time.
C18_AtMostGateDials == Len(tp.dialing) <= GateSize

\* C18, amended: at most GateSize dials of gets that are not high-priority are
\* in progress at any time, each holding one permit; a high-priority get dials
\* without a permit; a permit is taken only by a tryEnter that succeeds, and
\* exits beyond the permits taken leave the gate at GateSize free permits.
C18_AtMostGatePermitDials ==
    /\ [](PermitDials <= GateSize /\ tp.permits = PermitDials /\ GateWithinSize)
    /\ [][PermitByTryEnter]_vars

\* every permit is taken by a dial and a high-priority get dials as well
C18_Witness ==
    /\ tp # EmptyMap
    /\ tp.permits = GateSize /\ PermitDials = GateSize
    /\ Len(tp.dialing) = GateSize + 1
    /\ tp.gate = 0

\* the Close() that closes the pool: the idle tubes are closed and the gets
\* that wait return os.ErrClosed
ClosingStep ==
    ~tp.closed /\ tp'.closed
        => /\ \A k \in 1..Len(tp.idle) : tp.idle[k] \in tp'.tubeClosed
           /\ tp'.idle = <<>>
           /\ \A p \in Acquirers :
                 tp.acq[p].pc = "waiting" => tp'.acq[p] = Out(ErrClosed)

\* a get on a closed pool returns os.ErrClosed, and dials nothing
GetOnClosedStep ==
    tp.closed /\ tp'.gets > tp.gets
        => /\ \E p \in Acquirers :
                 tp'.acq = [tp.acq EXCEPT ![p] = Out(ErrClosed)]
           /\ tp'.dialing = tp.dialing /\ tp'.idle = tp.idle

\* Close() on a closed pool returns nil and leaves the pool as it is
CloseAgainStep ==
    tp.closed /\ tp'.closeCalls > tp.closeCalls
        => /\ tp'.closeErr = "nil"
           /\ [tp' EXCEPT !.closeCalls = 0, !.serial = FALSE]
                = [tp EXCEPT !.closeCalls = 0, !.serial = FALSE]

\* C19: closing a tube pool closes every idle tube and makes every get that
\* waits return os.ErrClosed, every later get returns os.ErrClosed, and a
\* second Close() changes nothing and returns no error.
C19_CloseWakesAndCloses ==
    /\ [][ClosingStep /\ GetOnClosedStep /\ CloseAgainStep]_vars
    /\ [](tp.closed => tp.idle = <<>> /\ \A p \in Acquirers : tp.acq[p].pc # "waiting")

\* a pool closed twice, with an idle tube closed, one get woken and one
\* get refused
C19_Witness ==
    /\ tp # EmptyMap
    /\ tp.closed /\ tp.closeCalls = MaxPoolCloseCalls
    /\ tp.tubeClosed # {}
    /\ \A p \in Acquirers : tp.acq[p] = Out(ErrClosed)
    /\ tp.gets >= 3

\* ------------------------------------------------------------ claims: lru
\* the gets of canonical key c, and the loads of it
GetsOf(c) == {p \in Getters : lru.get[p].pc # "idle" /\ KeyMarshaller(lru.get[p].key) = c}
LoadsOf(c) == {f \in 1..Len(lru.loads) : lru.loads[f].key = c}
Result(p) == <<lru.get[p].value, lru.get[p].err>>

\* C20 as stated: gets of one canonical key that were all called before a
\* load of it completed, with no cached value, make one load, and those that
\* have returned have one result.
C20_ConcurrentGetsLoadOnce ==
    \A c \in CanonicalKeys :
        ~lru.late[c] =>
            /\ Cardinality(LoadsOf(c)) <= 1
            /\ \A p, q \in GetsOf(c) :
                 lru.get[p].pc = "done" /\ lru.get[q].pc = "done" => Result(p) = Result(q)

\* one load in flight for a canonical key at most, the one the table names,
\* run by one goroutine, and no load that is done is in the table
SingleFlight ==
    /\ \A f \in 1..Len(lru.loads) :
         /\ ~lru.loads[f].done <=> lru.inflight[lru.loads[f].key] = f
         /\ Cardinality({p \in Getters : lru.get[p].load = f /\ lru.get[p].pc = "loading"}) =
                IF lru.loads[f].done THEN 0 ELSE 1
    /\ \A c \in CanonicalKeys : lru.inflight[c] # NoLoad => lru.inflight[c] \in LoadsOf(c)

\* the gets that share a load and were not cancelled have the result of the load
SharedResult ==
    \A p \in Getters :
        lru.get[p].pc = "done" /\ lru.get[p].load # NoLoad /\ ~lru.get[p].cancelled
            => Result(p) = <<lru.loads[lru.get[p].load].value, lru.loads[lru.get[p].load].err>>

\* a get that looks up its key while a load of it is in flight joins that
\* load, and a load that returns a value leaves it in the cache
JoinsStep ==
    /\ Len(lru'.loads) > Len(lru.loads)
         => \E p \in Getters :
              /\ lru.get[p].pc = "called" /\ lru'.get[p].pc = "loading"
              /\ lru.inflight[KeyMarshaller(lru.get[p].key)] = NoLoad
              /\ entryOf(KeyMarshaller(lru.get[p].key)) = 0
    /\ \A f \in 1..Len(lru.loads) :
         ~lru.loads[f].done /\ lru'.loads[f].done /\ lru'.loads[f].err = "nil"
            => \E i \in 1..Len(lru'.entries) :
                 lru'.entries[i] = [key |-> lru.loads[f].key, value |-> lru'.loads[f].value]

\* C20, amended: the gets that look up one canonical key while no value is
\* cached and a load of it is in flight share that one loadFn call, each of
\* them whose context is not cancelled has the result of that call, and the
\* load is out of the in-flight table when it completes, with a value or with
\* an error.
C20_SingleFlight == [](SingleFlight /\ SharedResult) /\ [][JoinsStep]_vars

\* every goroutine has shared one load that failed, of keys that differ
C20_Witness ==
    /\ lru # EmptyMap
    /\ Len(lru.loads) = 1 /\ lru.loads[1].done /\ lru.loads[1].err = "load error"
    /\ lru.inflight[lru.loads[1].key] = NoLoad
    /\ \A p \in Getters : lru.get[p].pc = "done" /\ lru.get[p].load = 1
                            /\ Result(p) = <<0, "load error">>
    /\ \E p, q \in Getters : lru.get[p].key # lru.get[q].key

\* C36: onHealthCheckSuccess leaves curReadTimeoutCount at 0; for an
\* unhealthy node it sets isHealthy and calls addRoute once, for a healthy
\* node it calls no addRoute.
C36_HealthCheckSuccessResets ==
    [][/\ (HealthCheckSuccess /\ hs'.check = "idle")
             => /\ hs'.curReadTimeoutCount = 0 /\ hs'.isHealthy
                /\ hs'.addRouteCalls = hs.addRouteCalls
       /\ HealthCheckSuccessLocked
             => /\ hs'.curReadTimeoutCount = 0 /\ hs'.isHealthy
                /\ hs'.addRouteCalls = hs.addRouteCalls + (IF hs.isHealthy THEN 0 ELSE 1)]_vars

\* a node that was taken out after five errors is healthy again
C36_Witness ==
    /\ hs.check = "idle"
    /\ hs.removeRouteCalls >= 1 /\ hs.addRouteCalls = 1
    /\ hs.isHealthy /\ hs.curReadTimeoutCount = 0

\* C37: put caches a tube in the idle stack only if the pool is open and the
\* tube's session is the pool's current session; a tube put to a closed pool,
\* or a tube of an older session, is closed and never cached.  Every idle tube
\* is an open tube of the current session of an open pool, and every put,
\* by the goroutine that holds the tube or by a dial nobody waits for any
\* more, either puts the tube on top of the idle stack or closes it.
Idle(pool) == {pool.idle[k] : k \in 1..Len(pool.idle)}
IdleIsCurrent ==
    \A t \in Idle(tp) : /\ ~tp.closed
                         /\ tp.tubeSession[t] = tp.session
                         /\ t \notin tp.tubeClosed
PutOf(t, session) ==
    IF ~tp.closed /\ session = tp.session
    THEN /\ tp'.idle = Append(tp.idle, t)
         /\ tp'.tubeClosed = tp.tubeClosed
    ELSE /\ t \in tp'.tubeClosed
         /\ tp'.closedSession = tp.closedSession \cup {t}
         /\ tp'.idle = tp.idle
OrphanDial(i) ==
    /\ DialEnds(i, TRUE)
    /\ tp.acq[tp.dialing[i].by].pc # "waiting"
Holders(t) == {p \in Acquirers : tp.acq[p].pc = "holding" /\ tp.acq[p].tube = t}
C38_OneOwner ==
    /\ \A t \in 1..tp.created :
          /\ Cardinality(Holders(t)) <= 1
          /\ Holders(t) # {} => t \notin Idle(tp) /\ t \notin tp.tubeClosed
    /\ Cardinality(Idle(tp)) = Len(tp.idle)
\* both goroutines hold a tube at once, each its own, after the three gets of
\* the run, and no tube is idle
C38_Witness ==
    /\ \A p \in Acquirers : tp.acq[p].pc = "holding"
    /\ tp.acq[1].tube # tp.acq[2].tube
    /\ tp.gets = 3 /\ tp.created = 2 /\ tp.idle = <<>>

\* C39: an LRU cache with maxEntries > 0 never holds more than maxEntries
\* entries, and each insertion beyond that evicts exactly the least recently
\* used entry: after maxEntries + k distinct keys are loaded in order, exactly
\* the first k keys are absent and the last maxEntries keys are present.
\* The least recently used key is the cached key whose last call lies furthest
\* back in lru.used.
Cached(entries) == {entries[k].key : k \in 1..Len(entries)}
LastUse(c) == CHOOSE i \in 1..Len(lru.used) :
                  /\ lru.used[i] = c
                  /\ \A j \in 1..Len(lru.used) : lru.used[j] = c => j <= i
LeastRecentlyUsed == CHOOSE c \in Cached(lru.entries) :
                         \A d \in Cached(lru.entries) : LastUse(c) <= LastUse(d)
DistinctInOrder == \A i, j \in 1..Len(lru.used) : i # j => lru.used[i] # lru.used[j]
LastLoaded == {lru.used[i] : i \in {j \in 1..Len(lru.used) : j > Len(lru.used) - lru.maxEntries}}
AtMostMaxEntries ==
    /\ Len(lru.entries) <= lru.maxEntries
    /\ Cardinality(Cached(lru.entries)) = Len(lru.entries)
    /\ DistinctInOrder => Cached(lru.entries) = LastLoaded
EvictsLeastRecentlyUsed ==
    \A key \in Keys, ok \in BOOLEAN :
        LruGetAlone(key, ok) =>
            IF ok /\ key \notin Cached(lru.entries) /\ Len(lru.entries) = lru.maxEntries
            THEN /\ Cached(lru'.entries)
                        = (Cached(lru.entries) \ {LeastRecentlyUsed}) \cup {key}
                 /\ lru'.evicted = LeastRecentlyUsed
            ELSE /\ Cached(lru.entries) \subseteq Cached(lru'.entries)
                 /\ lru'.evicted = 0
C39_EvictsLeastRecentlyUsed == []AtMostMaxEntries /\ [][EvictsLeastRecentlyUsed]_vars
\* a cache of two entries after keys 1, 2 and 3 were loaded in this order:
\* the third load evicted key 1, keys 2 and 3 are cached
C39_Witness ==
    /\ lru.maxEntries = 2 /\ lru.used = <<1, 2, 3>> /\ lru.loadCalls = 3
    /\ Cached(lru.entries) = {2, 3} /\ lru.evicted = 1

\* C40: if the context of one caller of the LRU cache is cancelled while a
\* load for its key is in flight, only that caller returns a cancellation
\* error: the shared load continues to completion and every other caller
\* waiting on the same canonical key receives the loaded value.
\* As stated: a get that returns ctx.Err() is a get whose own context was
\* cancelled.
C40_OnlyCancelledCallerFails ==
    \A p \in Getters :
        lru.get[p].pc = "done" /\ lru.get[p].err = "ctx.Err" => lru.get[p].cancelled

\* a get returns ctx.Err() with its own context live only when it shared a
\* load that ended with the ctx.Err() of the goroutine that ran loadFn
CancellationIsOwnOrLoaders ==
    \A p \in Getters :
        lru.get[p].pc = "done" /\ lru.get[p].err = "ctx.Err" /\ ~lru.get[p].cancelled
            => /\ lru.get[p].load # NoLoad
               /\ lru.loads[lru.get[p].load].done
               /\ lru.loads[lru.get[p].load].err = "ctx.Err"
               /\ \E q \in Getters \ {p} : /\ lru.get[q].load = lru.get[p].load
                                             /\ lru.get[q].pc = "done"
                                             /\ lru.get[q].cancelled
                                             /\ lru.get[q].err = "ctx.Err"
\* a waiter whose context is cancelled leaves with ctx.Err() and changes
\* nothing else: the load, the table of loads in flight, the cache and the
\* other gets are as they were
WaiterLeavesAlone ==
    \A p \in Getters :
        LruWaitCancelled(p) =>
            /\ lru'.get[p].pc = "done" /\ lru'.get[p].err = "ctx.Err"
            /\ lru'.loads = lru.loads /\ lru'.inflight = lru.inflight
            /\ lru'.entries = lru.entries
            /\ \A q \in Getters \ {p} : lru'.get[q] = lru.get[q]
\* C40, amended: a waiter's cancellation ends only its own wait, and the
\* others get the result of the load; the context of the goroutine that runs
\* loadFn is the load's context, and its ctx.Err() is the result all share.
C40_WaiterCancelsOnlyItself ==
    [](CancellationIsOwnOrLoaders /\ SharedResult) /\ [][WaiterLeavesAlone]_vars
\* three gets of one canonical key on one load: one waiter was cancelled,
\* the load then returned its value, the loader and the other waiter have it
C40_Witness ==
    /\ lru # EmptyMap
    /\ Len(lru.loads) = 1 /\ lru.loads[1].done /\ lru.loads[1].err = "nil"
    /\ \A p \in Getters : lru.get[p].pc = "done" /\ lru.get[p].load = 1
    /\ Cardinality({p \in Getters : lru.get[p].cancelled}) = 1
    /\ \A p \in Getters :
          IF lru.get[p].cancelled
          THEN Result(p)[2] = "ctx.Err"
          ELSE Result(p) = <<lru.loads[1].value, "nil">> /\ lru.loads[1].value # 0

\* ------------------------------------------------------------ claims: cbor
RECURSIVE Excluded(_)
\* an empty set or a NULL that is not true, in the value or inside it
Excluded(value) ==
    \/ value.t \in {"SS", "NS", "BS"} /\ Len(value.l) = 0
    \/ value.t = "NULL" /\ value.v # <<"true">>
    \/ value.t = "L" /\ \E i \in 1..Len(value.l) : Excluded(value.l[i])
    \/ value.t = "M" /\ \E key \in DOMAIN value.m : Excluded(value.m[key])

RECURSIVE NumbersOf(_)
\* the numbers written in a value
NumbersOf(value) ==
    CASE value.t = "N" -> {value.v}
      [] value.t = "NS" -> {value.l[i] : i \in 1..Len(value.l)}
      [] value.t = "L" -> UNION {NumbersOf(value.l[i]) : i \in 1..Len(value.l)}
      [] value.t = "M" -> UNION {NumbersOf(value.m[key]) : key \in DOMAIN value.m}
      [] OTHER -> {}

\* an integer as the decoder writes it: no plus sign, no leading zero, no -0
CanonicalInt(s) ==
    /\ IsDigits(Unsigned(s))
    /\ s[1] # "+"
    /\ Len(Unsigned(s)) = 1 \/ Unsigned(s)[1] # "0"
    /\ s # <<"-", "0">>

\* a number as the decoder writes it: an integer, or an integer, E and an
\* exponent that is not zero
CanonicalNumber(s) ==
    LET i == IndexAny(s, {".", "e", "E"})
    IN  IF i = 0 THEN CanonicalInt(s)
        ELSE /\ s[i] = "E"
             /\ CanonicalInt(SubSeq(s, 1, i - 1))
             /\ CanonicalInt(SubSeq(s, i + 1, Len(s)))
             /\ SubSeq(s, i + 1, Len(s)) # <<"0">>

\* the value was encoded, and the value decoded is the value given
RoundTrips == cb.pc # "failed" /\ (cb.pc = "decoded" => cb.out = cb.value)

C22_NoReaderWaitsAgain ==
    \A g \in Goroutines :
        ~(lk.held[g] > 0 /\ lk.pc[g] = "lastRefreshError" /\ lk.queued # {})

\* C25: once stopAll has returned no scheduled action starts or is still
\* running, and none runs when Close closes the node clients.
C25_StoppedTasksDoNotRun ==
    /\ lk.stopped => \A g \in Tasks : lk.pc[g] \in {"select", "exited"}
    /\ ~lk.startedAfterStop
    /\ lk.running = {}

\* C26: after Close a call of cluster.client, getAllRoutes, addRoute,
\* removeRoute or reapIdleConnections returns without using the route manager
\* that Close has cleared.
C26_NoCallOnClearedRouteManager == \A g \in Goroutines : lk.pc[g] # "panic"

\* ------------------------------------------------------------ claims: SingleDaxClient
PutOutcomes == {"ok", "daxRequestFailure", "deadline:ctx"}
CloseOutcomes == {"auth", "encoder", "flush", "decodeError", "decoder", "deadline"}

\* C27: a tube that executeWithContext has acquired is handed back exactly
\* once before the call returns: put in the pool after a success, a
\* daxRequestFailure or a deadline that failed because the context was done,
\* closed after a failure of auth, encoder, flush, decodeError, decoder or of
\* the deadline for another reason.
C27_TubeHandedBackOnce ==
    /\ sc.pc \in {"auth", "send", "receive"} =>
           /\ sc.t # NoTube /\ sc.tube[sc.t].state = "held"
           /\ sc.puts = 0 /\ sc.closes = 0
    /\ sc.pc \in {"idle", "sleep", "attempt"} =>
           /\ sc.t = NoTube
           /\ \A t \in TubeIds : sc.tube[t].state # "held"
           /\ sc.outcome \notin {"none", "get"} => sc.puts + sc.closes = 1
           /\ sc.outcome \in PutOutcomes => sc.puts = 1 /\ sc.closes = 0
           /\ sc.outcome \in CloseOutcomes => sc.puts = 0 /\ sc.closes = 1

C27_Witness ==
    /\ sc.pc = "sleep" /\ sc.outcome = "daxRequestFailure"
    /\ sc.puts = 1 /\ sc.idle # <<>>

\* C28: an attempt of executeWithRetries that fails with context.Canceled or
\* context.DeadlineExceeded ends the loop at once with a CanceledError, with
\* no sleep and no further attempt.
C28_ContextErrorEndsLoop ==
    sc.err.type \in {"context.Canceled", "context.DeadlineExceeded"} =>
        /\ sc.pc = "idle"
        /\ sc.result.type = "CanceledError"
        /\ sc.slept = 0

\* C29: when the request frame is written, the tube carries an auth frame
\* for the access key retrieved for this request, written no more than the
\* auth window before; auth writes the frame exactly when the cached access
\* key differs or authExpiryUnix <= now, and then sets authExpiryUnix to now
\* plus the window.
AuthIsFresh ==
    sc.pc \in {"send", "receive"} =>
        /\ sc.lastAuth[sc.t].key = sc.authKey
        /\ sc.lastAuth[sc.t].time <= sc.authNow
        /\ sc.authNow - sc.lastAuth[sc.t].time <= tubeAuthWindowSecs

AuthStep ==
    sc.pc = "auth" /\ sc'.pc = "send" =>
        /\ sc'.wroteAuth <=> \/ sc.tube[sc.t].authID # sc.creds
                             \/ sc.tube[sc.t].authExpiryUnix <= sc.now
        /\ sc'.wroteAuth => sc'.tube[sc.t].authExpiryUnix = sc.now + tubeAuthWindowSecs

C29_AuthBeforeRequest == []AuthIsFresh /\ [][AuthStep]_vars

C29_Witness ==
    /\ sc.pc = "receive" /\ ~sc.wroteAuth
    /\ sc.lastAuth[sc.t].time < sc.authNow

\* C30: a request that ends with a daxRequestFailure for an auth problem
\* puts its tube back with authExpiryUnix = now, and the next request on this
\* tube writes an auth frame before its request frame.
AuthFailureStep ==
    sc.pc = "receive" /\ sc'.pc # "receive" /\ sc'.outcome = "daxRequestFailure"
                      /\ authError(sc'.err) =>
        /\ sc'.tube[sc.t].state = "idle"
        /\ sc'.idle # <<>> /\ Head(sc'.idle) = sc.t
        /\ sc'.tube[sc.t].authExpiryUnix = sc.now

ReauthStep ==
    sc.pc = "auth" /\ sc'.pc = "send" /\ sc.authFailed[sc.t] => sc'.wroteAuth

C30_AuthFailureForcesAuth == [][AuthFailureStep]_vars /\ [][ReauthStep]_vars

C30_Witness == sc.pc = "send" /\ sc.wasFailed /\ sc.wroteAuth

\* ------------------------------------------------------------ claims: cluster
\* a step in which refreshNow calls update with the roster res.cfg, the build
\* failing at roster index failAt (0: no build fails)
UpdateCall(res, failAt) ==
    /\ last'.op = "update"
    /\ last'.failed = (failAt # 0)
    /\ sinceLastUpdate' = "within"
    /\ res.err = "nil"
    /\ hasChanged(res.cfg)
    /\ failAt \in FailPoints(res.cfg)
    /\ safeRefresh(TRUE, res, failAt)

\* the clients built between two states
BuiltBy == {c \in ClientIds : nextClient <= c /\ c < nextClient'}

\* C5: update on an open cluster, every build succeeding, keeps the client of
\* each endpoint it already has, builds exactly one client per new endpoint,
\* closes exactly the clients of the endpoints absent from the roster, and
\* leaves active and the routes holding exactly the clients of the roster.
C5_UpdateSucceeds ==
    [][\A res \in PullResults :
         (~closed /\ UpdateCall(res, 0))
            => LET new == newEndpoints(res.cfg) \ DOMAIN active
                   gone == (DOMAIN active) \ newEndpoints(res.cfg)
               IN  /\ DOMAIN active' = newEndpoints(res.cfg)
                   /\ \A hp \in (DOMAIN active) \cap newEndpoints(res.cfg) :
                         active'[hp] = active[hp]
                   /\ Cardinality(BuiltBy) = Cardinality(new)
                   /\ {active'[hp].client : hp \in new} = BuiltBy
                   /\ \A c \in ClientIds :
                         closeCalls'[c] = closeCalls[c] +
                            (IF c \in {active[hp].client : hp \in gone} THEN 1 ELSE 0)
                   /\ routes' = ClientsOf(active')
                   /\ Cardinality(routes') = Len(res.cfg)]_vars

\* an update that kept one client, built one and closed one
C5_Witness ==
    /\ last.op = "update"
    /\ ~last.failed
    /\ ~closed
    /\ Cardinality(last.built) = 1
    /\ Cardinality(last.toClose) = 1
    /\ Cardinality(DOMAIN active) = 2
    /\ last.built \subseteq ClientsOf(active)
    /\ routes = ClientsOf(active)

\* C6: when a build fails during update, active and the routes are left as
\* they were and every client built during that call is closed.
C6_FailedUpdateRollsBack ==
    [][\A res \in PullResults, failAt \in 1..NumHostPorts :
         (~closed /\ UpdateCall(res, failAt))
            => /\ active' = active
               /\ routes' = routes
               /\ \A c \in BuiltBy : closeCalls'[c] = closeCalls[c] + 1]_vars

\* a failed update that had built a client before the failing build
C6_Witness ==
    /\ last.op = "update"
    /\ last.failed
    /\ last.built # {}
    /\ active # EmptyMap
    /\ \A c \in last.built : closeCalls[c] = 1 /\ c \notin ClientsOf(active)

\* C7: when a build fails during update, no client that remains in active is
\* closed.
C7_FailedUpdateClosesNoActiveClient ==
    (last.op = "update" /\ last.failed) => last.toClose \cap ClientsOf(active) = {}

\* C8: when refresh finds a changed roster and a build fails in update,
\* lastRefreshErr holds that failure once the refresh has finished.
C8_BuildFailureIsRecorded ==
    [][\A res \in PullResults, failAt \in 1..NumHostPorts :
         (~closed /\ UpdateCall(res, failAt)) => lastRefreshErr' # "nil"]_vars

\* a step in which onHealthCheckFailed(host) runs for a host of active and the
\* rebuild succeeds
Rebuild(host) ==
    /\ last'.op = "onHealthCheckFailed"
    /\ host \in DOMAIN active
    /\ onHealthCheckFailed(host, TRUE)

\* what onHealthCheckFailed does to the clients when the rebuild succeeds:
\* one client built, stored at active[host]; the old client closed, once, and
\* no other; the keys of active and its other entries as before
ReplacesClient(host) ==
    /\ nextClient' = nextClient + 1
    /\ DOMAIN active' = DOMAIN active
    /\ active'[host].client = nextClient
    /\ \A hp \in (DOMAIN active) \ {host} : active'[hp] = active[hp]
    /\ \A c \in ClientIds :
          closeCalls'[c] = closeCalls[c] + (IF c = active[host].client THEN 1 ELSE 0)

\* C9, as stated: ... and the number of routes is unchanged.
C9_RouteCountUnchanged ==
    [][\A host \in HostPorts :
         Rebuild(host) => ReplacesClient(host) /\ Cardinality(routes') = Cardinality(routes)]_vars

\* C9, amended: for a host/port hp of active, when the rebuild succeeds,
\* onHealthCheckFailed(hp) builds exactly one client, stores it at active[hp],
\* closes exactly the client that was at hp, leaves the key set of active
\* unchanged, and sets the routes to exactly the clients of active (as many
\* routes as before when no route had been removed).
C9_RebuildReplacesClient ==
    [][\A host \in HostPorts :
         Rebuild(host)
            => /\ ReplacesClient(host)
               /\ routes' = ClientsOf(active')
               /\ Cardinality(routes') = Cardinality(DOMAIN active')
               /\ Cardinality(routes) = Cardinality(DOMAIN active)
                     => Cardinality(routes') = Cardinality(routes)]_vars

\* a rebuild in a cluster of two nodes or more
C9_Witness ==
    /\ last.op = "onHealthCheckFailed"
    /\ ~last.failed
    /\ Cardinality(last.built) = 1
    /\ Cardinality(last.toClose) = 1
    /\ last.built \subseteq ClientsOf(active)
    /\ last.toClose \cap ClientsOf(active) = {}
    /\ Cardinality(DOMAIN active) >= 2

C24_NoClientClosedTwice == \A c \in ClientIds : closeCalls[c] <= 1

C32_RemovedRouteStaysOut ==
    [][(routes' # routes /\ last'.op \in {"update", "onHealthCheckFailed"})
          => \A c \in ClientsOf(active) \ routes : c \notin routes']_vars

\* a step in which onHealthCheckFailed(host) runs for a host of active and the
\* build of the new client fails
FailedRebuild(host) ==
    /\ host \in DOMAIN active
    /\ onHealthCheckFailed(host, FALSE)

\* a step in which onHealthCheckFailed(host) runs for a host that is not in
\* active
IgnoredFailure(host, buildOk) ==
    /\ host \notin DOMAIN active
    /\ onHealthCheckFailed(host, buildOk)

C33_ReplacesOnlyReporter == pb.replaced \in {NoClient, pb.reporter}

\* C35: a pull that ends with an error on every seed leaves lastRefreshErr
\* holding the last error, and lastRefreshErr keeps it until the next pull
\* has completed.
C35_ErrorKeptUntilNextPull ==
    [][(lastRefreshErr # "nil" /\ lastRefreshErr' # lastRefreshErr)
          => \E p \in Callers : rf.pc[p] = "refreshNow" /\ rf'.pc[p] = "idle"]_vars

====
